---------------------------- MODULE Spec2Model ----------------------------
(***************************************************************************)
(* A model of the Tsushima.Ru Mini App backend (swiezdo/miniapp_api):      *)
(* the SQLite tables written by db.py, the FastAPI handlers of app.py      *)
(* that read and write them, and the weekly cron scripts                   *)
(* (reset_quests_done.py, quest_generator.py,                              *)
(* generate_additional_quest_only.py).                                     *)
(*                                                                         *)
(* A table is a function from its key to a row, or NoRow where the table   *)
(* has no row for that key.  A handler is one action: the handlers are     *)
(* synchronous and each db.py call opens, commits and closes its own       *)
(* connection, so a handler that runs alone is a sequence of committed     *)
(* writes, which the action composes.  `resp` is the endpoint, the HTTP    *)
(* status and the reason of the last request answered.                     *)
(***************************************************************************)
EXTENDS Integers, Sequences, FiniteSets, TLC

VARIABLES
    users,              \* table users: user_id -> row
    mastery,            \* table mastery: user_id -> row
    trophies,           \* table trophies: user_id -> row
    recent_events,      \* table recent_events, in insertion order
    birthdays,          \* table birthdays: user_id -> row
    notifications,      \* table notifications: user_id -> row
    rotation_current_week, \* table rotation_current_week: the row with id 1, or NoRow
    calls,              \* the db.py call each process is in: what it has read so far
    quests_done,        \* table quests_done: user_id -> row
    quests_reset_log,   \* table quests_reset_log: <<>> or <<last_reset_timestamp>>
    now,                \* the clock: half hours since 1970-01-01 00:00 UTC
    week_ac,            \* all_completed of each user as the last weekly reset left it
    hellmode_quest,     \* table hellmode_quest: quest id (1 weekly, 2 additional) -> row
    gen,                \* the locals and the position of a run of a generator script
    builds,             \* table builds: build_id -> row
    build_reactions,    \* table build_reactions: build_id -> user_id -> rows of each type
    comments,           \* table comments, in insertion order
    files,              \* the files under the data directory (avatars, build photos)
    resp,               \* the last request answered: [op, status, detail]
    nops                \* requests and script runs handled so far

vars == <<users, mastery, trophies, recent_events, birthdays, notifications,
          rotation_current_week, calls, quests_done, quests_reset_log,
          now, week_ac, hellmode_quest, gen, builds, build_reactions, comments,
          files, resp, nops>>

sideTables == <<birthdays, notifications, rotation_current_week, calls>>
questVars == <<quests_done, quests_reset_log, now, week_ac>>

genVars == <<hellmode_quest, gen>>

siteVars == <<builds, build_reactions, comments, files>>

\* What the mastery and quest operations leave alone.
farVars == <<genVars, siteVars>>

-----------------------------------------------------------------------------
(* Bounds of the model. *)

NumUsers == 2           \* registered users 1..NumUsers
MaxMasteryOps == 2      \* requests handled in SpecMastery
NumProcs == 2           \* processes calling db.py at the same time

UserIds == 1..NumUsers
GhostUser == NumUsers + 1           \* a user id with no row in users
AnyUserIds == UserIds \cup {GhostUser}

NoRow == [exists |-> FALSE]         \* no row for the key; Python's None for a dict
Procs == 1..NumProcs                \* the processes that import db.py
IdleCall == [pc |-> "idle"]         \* a process that is in no db.py call
NULL == <<"NULL">>                  \* SQL NULL, Python's None, in a text column

\* The PSN name of the profiles of the start, character by character.
SeedPsn == <<"p", "s", "n">>

-----------------------------------------------------------------------------
(* Helpers of db.py. *)

MASTERY_CATEGORIES == <<"solo", "hellmode", "raid", "speedrun", "glitch">>

CategorySet == {MASTERY_CATEGORIES[i] : i \in DOMAIN MASTERY_CATEGORIES}

\* Python's order of the trophy keys the model uses (str.__lt__, by code point).
KeyOrder == <<"bonus", "ghost", "glitch", "hellmode", "raid", "solo", "speedrun", "week-hero">>

KeyRank(k) == CHOOSE i \in DOMAIN KeyOrder : KeyOrder[i] = k

SeqToSet(s) == {s[i] : i \in DOMAIN s}

\* list.sort() on a list of keys: insertion of each element at its place.
RECURSIVE InsertSorted(_, _)
InsertSorted(k, s) ==
    IF s = <<>> THEN <<k>>
    ELSE IF KeyRank(k) < KeyRank(Head(s)) THEN <<k>> \o s
    ELSE <<Head(s)>> \o InsertSorted(k, Tail(s))

RECURSIVE SortKeys(_)
SortKeys(s) == IF s = <<>> THEN <<>> ELSE InsertSorted(Head(s), SortKeys(Tail(s)))

\* get_user: the profile row, or NoRow (None).
get_user(u) == users[u]

\* get_mastery: the five levels, all 0 when the user has no row.
get_mastery(m, u) ==
    IF m[u] = NoRow THEN [c \in CategorySet |-> 0]
    ELSE [c \in CategorySet |-> m[u][c]]

\* mastery_data.get(category_key, 0)
LevelOf(m, u, c) == IF c \in CategorySet THEN get_mastery(m, u)[c] ELSE 0

\* set_mastery with every column but the category's overwritten by 0.
set_mastery_clobber(m, u, category, level) ==
    IF category \notin CategorySet
    THEN [ok |-> FALSE, mastery |-> m]
    ELSE [ok |-> TRUE,
          mastery |-> [m EXCEPT ![u] =
              [c \in CategorySet |-> IF c = category THEN level ELSE 0]
                  @@ [psn_id |-> NULL]]]

\* set_mastery: False for an unknown category; otherwise the row is read and
\* written back with the category's column changed, or inserted with the
\* other columns 0 and the psn_id of the users row.
set_mastery(m, u, category, level) ==
    IF category \notin CategorySet
    THEN [ok |-> FALSE, mastery |-> m]
    ELSE IF m[u] # NoRow
    THEN [ok |-> TRUE, mastery |-> [m EXCEPT ![u][category] = level]]
    ELSE [ok |-> TRUE,
          mastery |-> [m EXCEPT ![u] =
              [c \in CategorySet |-> IF c = category THEN level ELSE 0]
                  @@ [psn_id |-> IF users[u] # NoRow /\ users[u].psn_id # <<>>
                                 THEN users[u].psn_id ELSE NULL]]]

\* init_user_trophies: inserts an empty row unless one exists.
init_user_trophies(t, u, psn_id) ==
    IF t[u] # NoRow THEN t
    ELSE [t EXCEPT ![u] = [psn_id |-> psn_id, trophies |-> <<>>, active_trophies |-> <<>>]]

\* add_trophy: creates the row when missing, then appends the key unless
\* the user holds it, and sorts.
add_trophy(t, u, trophy_key) ==
    LET t1 == IF t[u] = NoRow
              THEN init_user_trophies(t, u, IF get_user(u) = NoRow THEN <<>> ELSE get_user(u).psn_id)
              ELSE t
        current == IF t[u] = NoRow THEN <<>> ELSE t[u].trophies
    IN  IF trophy_key \in SeqToSet(current) THEN t
        ELSE [t1 EXCEPT ![u].trophies = SortKeys(Append(current, trophy_key))]

-----------------------------------------------------------------------------
(* Bot authorization (app.py).  An Authorization header is a sequence of   *)
(* pieces of text: the piece "Bearer ", the token's text, other text, and  *)
(* white space.                                                            *)

BOT_TOKEN == <<"tok">>

NoHeader == [present |-> FALSE, value |-> <<>>]
Header(v) == [present |-> TRUE, value |-> v]

\* str.replace("Bearer ", ""): every occurrence is removed.
RemoveBearer(v) == SelectSeq(v, LAMBDA a : a # "Bearer ")

\* The white space among the parts of a text: a blank and a line feed.
WhiteSpace == {" ", "LF"}

\* str.strip(): leading and trailing white space is removed.
RECURSIVE LStrip(_)
LStrip(v) == IF v # <<>> /\ Head(v) \in WhiteSpace THEN LStrip(Tail(v)) ELSE v

RECURSIVE RStrip(_)
RStrip(v) ==
    IF v # <<>> /\ v[Len(v)] \in WhiteSpace THEN RStrip(SubSeq(v, 1, Len(v) - 1)) ELSE v

Strip(v) == RStrip(LStrip(v))

\* verify_bot_authorization accepting every header that is present.
verify_bot_authorization_any(authorization) ==
    authorization.present /\ authorization.value # <<>>

verify_bot_authorization(authorization) ==
    IF ~authorization.present \/ authorization.value = <<>> THEN FALSE
    ELSE Strip(RemoveBearer(authorization.value)) = BOT_TOKEN

-----------------------------------------------------------------------------
(* The mastery config (mastery-config.json, read at each request by        *)
(* load_mastery_config): the file is not part of the repository; the model *)
(* fixes one with a category whose last level is 1, one whose last level   *)
(* is 2, one without maxLevels, and one that is no column of mastery.      *)

MasteryConfig ==
    [categories |-> << [key |-> "solo", maxLevels |-> 1],
                       [key |-> "raid", maxLevels |-> 2],
                       [key |-> "speedrun"],
                       [key |-> "bonus", maxLevels |-> 1] >>]

\* find_category_by_key: the first category with the key, or NoRow (None).
find_category_by_key(config, category_key) ==
    LET hits == SelectSeq(config.categories, LAMBDA cat : cat.key = category_key)
    IN  IF hits = <<>> THEN NoRow ELSE Head(hits)

\* category.get('maxLevels', 0)
MaxLevelsOf(category) ==
    IF "maxLevels" \in DOMAIN category THEN category.maxLevels ELSE 0

\* The grant condition with the comparison to the last level strict.
ReachedMaxLevelStrict(new_level, max_levels) == new_level > max_levels /\ max_levels > 0

\* new_level >= max_levels and max_levels > 0
ReachedMaxLevel(new_level, max_levels) == new_level >= max_levels /\ max_levels > 0

\* The level check accepting every next_level above the stored level.
LevelMismatchLoose(current_level, next_level) == next_level <= current_level

\* next_level != current_level + 1
LevelMismatch(current_level, next_level) == next_level # current_level + 1

Response(op, status, detail) == [op |-> op, status |-> status, detail |-> detail]

\* POST /api/mastery.approve: the response and the tables as the handler
\* leaves them.  The writes of set_mastery and add_trophy are committed when
\* get_user is called, so the 404 of a user without profile leaves them in
\* place.  send_telegram_message changes no table.
approve_mastery_application(user_id, category_key, next_level, authorization) ==
    LET current_level == LevelOf(mastery, user_id, category_key)
        category == find_category_by_key(MasteryConfig, category_key)
        new_level == current_level + 1
        saved == set_mastery(mastery, user_id, category_key, new_level)
        max_levels == MaxLevelsOf(category)
        granted == IF ReachedMaxLevel(new_level, max_levels)
                   THEN add_trophy(trophies, user_id, category_key)
                   ELSE trophies
        Rejected(status, detail) ==
            [resp |-> Response("mastery.approve", status, detail), mastery |-> mastery,
             trophies |-> trophies, recent_events |-> recent_events]
    IN  IF ~verify_bot_authorization(authorization)
        THEN Rejected(401, "unauthorized")
        ELSE IF LevelMismatch(current_level, next_level)
        THEN Rejected(400, "level mismatch")
        ELSE IF category = NoRow
        THEN Rejected(400, "category not in config")
        ELSE IF ~saved.ok
        THEN Rejected(500, "set_mastery failed")
        ELSE IF get_user(user_id) = NoRow
        THEN [resp |-> Response("mastery.approve", 404, "profile not found"),
              mastery |-> saved.mastery, trophies |-> granted,
              recent_events |-> recent_events]
        ELSE [resp |-> Response("mastery.approve", 200, "ok"),
              mastery |-> saved.mastery, trophies |-> granted,
              recent_events |-> Append(recent_events,
                  [event_type |-> "mastery_upgrade", user_id |-> user_id,
                   psn_id |-> get_user(user_id).psn_id,
                   category_key |-> category_key, level |-> new_level])]

\* A request to /api/mastery.approve is handled.
MasteryApprove(user_id, category_key, next_level, authorization) ==
    \E out \in {approve_mastery_application(user_id, category_key, next_level, authorization)} :
        /\ resp' = out.resp
        /\ mastery' = out.mastery
        /\ trophies' = out.trophies
        /\ recent_events' = out.recent_events
        /\ nops' = nops + 1
        /\ UNCHANGED <<users, sideTables, questVars, farVars>>

-----------------------------------------------------------------------------
(* SpecMastery: the bot's approvals, from a database where user 1 already  *)
(* holds levels in categories that no request of the model names.          *)

\* A row of birthdays.
BirthdayRow(psn_id, birthday) == [psn_id |-> psn_id, birthday |-> birthday]

\* A row of notifications as upsert_user inserts it: every column 1.
NotificationRow(psn_id) ==
    [psn_id |-> psn_id, check |-> 1, speedrun |-> 1, raid |-> 1, ghost |-> 1,
     hellmode |-> 1, story |-> 1, rivals |-> 1, trials |-> 1]

Profile(u) ==
    [psn_id |-> SeedPsn, real_name |-> <<"name">>, avatar_url |-> <<>>,
     platforms |-> <<"ps5">>, modes |-> <<"story", ",", "rivals">>, goals |-> <<>>,
     difficulties |-> <<>>]

SeedMasteryRow ==
    [solo |-> 0, hellmode |-> 2, raid |-> 0, speedrun |-> 0, glitch |-> 1, psn_id |-> SeedPsn]

ReqCategories == {"solo", "raid", "speedrun", "glitch", "bonus"}

ReqLevels == 0..(MaxMasteryOps + 1)

MasteryHeaders ==
    {NoHeader, Header(<<"Bearer ", "tok">>), Header(<<"Bearer ", "other">>)}

\* No generator script has run: both quest slots are empty.
InitNoGen ==
    /\ hellmode_quest = [id \in {1, 2} |-> NoRow]
    /\ gen = [pc |-> "idle"]

NumBuilds == 2          \* builds 1..NumBuilds exist at the start

BuildIds == 1..NumBuilds

\* The build ids of requests: one more than the builds that exist.
AnyBuildIds == 1..(NumBuilds + 1)

\* The files of the data directory: two photos per build, an avatar per user.
Paths ==
    {<<"builds", b, photo>> : b \in AnyBuildIds, photo \in {"photo_1.jpg", "photo_2.jpg"}}
    \cup {<<"users", u, "avatar.jpg">> : u \in AnyUserIds}

\* No build, reaction, comment or file.
InitNoSite ==
    /\ builds = [b \in AnyBuildIds |-> NoRow]
    /\ build_reactions =
         [b \in AnyBuildIds |-> [u \in AnyUserIds |-> [like |-> 0, dislike |-> 0]]]
    /\ comments = <<>>
    /\ files = [p \in Paths |-> "absent"]

InitFar == InitNoGen /\ InitNoSite

InitPeople ==
    /\ users = [u \in AnyUserIds |-> IF u \in UserIds THEN Profile(u) ELSE NoRow]
    /\ recent_events = <<>>
    /\ birthdays = [u \in AnyUserIds |-> IF u \in UserIds THEN BirthdayRow(SeedPsn, NULL) ELSE NoRow]
    /\ notifications = [u \in AnyUserIds |-> IF u \in UserIds THEN NotificationRow(SeedPsn) ELSE NoRow]
    /\ resp = [op |-> "none", status |-> 0, detail |-> "none"]
    /\ nops = 0
    /\ calls = [p \in Procs |-> IdleCall]

\* The profiles of the start in a database without a rotation row.
InitProfiles == InitPeople /\ rotation_current_week = NoRow

InitTables ==
    /\ InitProfiles
    /\ trophies = [u \in AnyUserIds |-> NoRow]

\* The clock counts half hours, so that it is finer than the whole hours the
\* tables store, as time.time() is finer than the INTEGER columns.
TicksPerHour == 2

Hours(h) == h * TicksPerHour

\* int(timestamp): the fraction of the stored unit is dropped.
IntTimestamp(timestamp) == (timestamp \div TicksPerHour) * TicksPerHour

\* Saturday 08:00 Moscow time (05:00 UTC) of the sixth week after 1970-01-01.
StartOfTime == Hours(5 * 168 + 2 * 24 + 5)

InitNoQuests ==
    /\ quests_done = [u \in AnyUserIds |-> NoRow]
    /\ week_ac = [u \in AnyUserIds |-> 0]
    /\ quests_reset_log = <<>>
    /\ now = StartOfTime

InitMastery ==
    /\ InitTables
    /\ InitNoQuests
    /\ InitFar
    /\ mastery = [u \in AnyUserIds |-> IF u = 1 THEN SeedMasteryRow ELSE NoRow]

NextMastery ==
    /\ nops < MaxMasteryOps
    /\ \E u \in AnyUserIds, c \in ReqCategories, n \in ReqLevels, a \in MasteryHeaders :
            MasteryApprove(u, c, n, a)

SpecMastery == InitMastery /\ [][NextMastery]_vars

\* The trophies of a user, as get_trophies returns them.
HeldTrophies(t, u) == IF t[u] = NoRow THEN {} ELSE SeqToSet(t[u].trophies)

ApproveInputs == AnyUserIds \X ReqCategories \X ReqLevels \X MasteryHeaders

\* C1: every successful mastery.approve for user u and category c raises
\* u's stored level in c by exactly 1 and leaves u's other four levels and
\* every other user's levels unchanged.
C1_ApprovalAdvancesByOne ==
    \A i \in ApproveInputs :
        \A out \in {approve_mastery_application(i[1], i[2], i[3], i[4])} :
            out.resp.status = 200
            => /\ i[2] \in CategorySet
               /\ get_mastery(out.mastery, i[1])
                     = [get_mastery(mastery, i[1]) EXCEPT ![i[2]] = @ + 1]
               /\ \A u \in AnyUserIds \ {i[1]} :
                     get_mastery(out.mastery, u) = get_mastery(mastery, u)

\* C1 witness: an approval has succeeded for a user who holds levels in other
\* categories, while another user holds a level too.
C1_Witness ==
    /\ resp = [op |-> "mastery.approve", status |-> 200, detail |-> "ok"]
    /\ mastery[1] # NoRow /\ mastery[1]["raid"] = 1 /\ mastery[1]["hellmode"] = 2
    /\ mastery[2] # NoRow /\ mastery[2]["solo"] = 1

\* C7: an authorized mastery.approve whose next_level is not the stored level
\* + 1 is answered 400 and changes no mastery level and no trophy.
C7_WrongLevelRejected ==
    \A i \in ApproveInputs :
        \A out \in {approve_mastery_application(i[1], i[2], i[3], i[4])} :
            ( /\ verify_bot_authorization(i[4])
              /\ i[3] # LevelOf(mastery, i[1], i[2]) + 1 )
            => /\ out.resp.status = 400
               /\ out.mastery = mastery
               /\ out.trophies = trophies

\* C7 witness: a request was rejected for its level after the user's level in
\* some category had been raised (a replay or a skipped level).
C7_Witness ==
    /\ resp = [op |-> "mastery.approve", status |-> 400, detail |-> "level mismatch"]
    /\ \E u \in UserIds : mastery[u] # NoRow /\ mastery[u]["raid"] = 1

-----------------------------------------------------------------------------
(* Weekly quests (db.py): mark_quest_done and reset_weekly_quests.         *)
(* quests_done is keyed by user_id (INSERT OR REPLACE replaces the user's  *)
(* row).  first_completed_at is <<>> for NULL.                             *)

valid_quest_types == {"hellmode", "story", "survival", "trials"}

WEEK_HERO_STREAK == 5

QuestRow(psn_id, hellmode, story, survival, trials, all_completed, first_completed_at) ==
    [psn_id |-> psn_id, hellmode |-> hellmode, story |-> story, survival |-> survival,
     trials |-> trials, all_completed |-> all_completed,
     first_completed_at |-> first_completed_at]

\* hellmode + story + survival + trials
CompletedCount(row) == row.hellmode + row.story + row.survival + row.trials

\* The increment's condition without the test of the count before the call.
CompletesWeekAgain(sum_before, sum_after) == sum_after = 4

\* sum_after == 4 and sum_before < 4
CompletesWeek(sum_before, sum_after) == sum_after = 4 /\ sum_before < 4

\* mark_quest_done: False for an unknown quest type; otherwise the row is
\* read (all 0 when missing), the quest's flag set, all_completed raised when
\* this call completes the four quests (the 'week-hero' trophy is added, on
\* its own connection, when it reaches 5), and the row replaced.
mark_quest_done(user_id, psn_id, quest_type) ==
    LET before == IF quests_done[user_id] # NoRow THEN quests_done[user_id]
                  ELSE QuestRow(psn_id, 0, 0, 0, 0, 0, <<>>)
        sum_before == CompletedCount(before)
        marked == [before EXCEPT ![quest_type] = 1]
        sum_after == CompletedCount(marked)
        completes == CompletesWeek(sum_before, sum_after)
        all_completed == IF completes THEN before.all_completed + 1
                         ELSE before.all_completed
        first_completed_at == IF completes /\ all_completed = 1 THEN <<IntTimestamp(now)>>
                              ELSE before.first_completed_at
        row == QuestRow(psn_id, marked.hellmode, marked.story, marked.survival,
                        marked.trials, all_completed, first_completed_at)
    IN  IF quest_type \notin valid_quest_types
        THEN [ok |-> FALSE, quests_done |-> quests_done, trophies |-> trophies]
        ELSE [ok |-> TRUE,
              quests_done |-> [quests_done EXCEPT ![user_id] = row],
              trophies |-> IF completes /\ all_completed = WEEK_HERO_STREAK
                           THEN add_trophy(trophies, user_id, "week-hero")
                           ELSE trophies]

\* The reset of one row that keeps every row with a streak.
ResetRowKeepStreak(row) ==
    IF row = NoRow THEN NoRow
    ELSE IF row.all_completed > 0
    THEN [row EXCEPT !.hellmode = 0, !.story = 0, !.survival = 0, !.trials = 0]
    ELSE NoRow

\* The loop body of reset_weekly_quests: a row with all_completed > 0 and the
\* four quests done has its flags set to 0; every other row is deleted.
ResetRow(row) ==
    IF row = NoRow THEN NoRow
    ELSE IF row.all_completed > 0 /\ CompletedCount(row) = 4
    THEN [row EXCEPT !.hellmode = 0, !.story = 0, !.survival = 0, !.trials = 0]
    ELSE NoRow

\* reset_weekly_quests: every row of the table is reset.
reset_weekly_quests(q) == [u \in DOMAIN q |-> ResetRow(q[u])]

\* all_completed of a user, 0 without a row (get_user_quests_status).
StreakOf(q, u) == IF q[u] = NoRow THEN 0 ELSE q[u].all_completed

\* The bot marks a quest done.
MarkQuestDone(user_id, psn_id, quest_type) ==
    \E out \in {mark_quest_done(user_id, psn_id, quest_type)} :
        /\ quests_done' = out.quests_done
        /\ trophies' = out.trophies
        /\ resp' = Response("mark_quest_done", IF out.ok THEN 200 ELSE 400,
                            IF out.ok THEN "ok" ELSE "invalid quest type")
        /\ nops' = nops + 1
        /\ UNCHANGED <<users, mastery, recent_events, sideTables, quests_reset_log, now, week_ac, farVars>>

\* reset_weekly_quests is called.
ResetWeeklyQuests ==
    /\ quests_done' = reset_weekly_quests(quests_done)
    /\ week_ac' = [u \in AnyUserIds |-> StreakOf(quests_done', u)]
    /\ resp' = Response("reset_weekly_quests", 200, "ok")
    /\ nops' = nops + 1
    /\ UNCHANGED <<users, mastery, trophies, recent_events, sideTables, quests_reset_log, now, farVars>>

-----------------------------------------------------------------------------
(* SpecQuests: quests marked and weeks reset, from a week in which user 1  *)
(* has a streak of four weeks and three quests done, and user 2 three      *)
(* quests done in a first week.                                            *)

MaxQuestOps == 4        \* calls handled in SpecQuests

SeedQuestRow(u) ==
    IF u = 1 THEN QuestRow(SeedPsn, 1, 1, 1, 0, 4, <<StartOfTime - Hours(4 * 168)>>)
    ELSE IF u = 2 THEN QuestRow(SeedPsn, 0, 1, 1, 1, 0, <<>>)
    ELSE NoRow

ReqQuestTypes == valid_quest_types \cup {"raid"}

InitQuests ==
    /\ InitTables
    /\ InitFar
    /\ mastery = [u \in AnyUserIds |-> NoRow]
    /\ quests_done = [u \in AnyUserIds |-> SeedQuestRow(u)]
    /\ week_ac = [u \in AnyUserIds |-> StreakOf(quests_done, u)]
    /\ quests_reset_log = <<>>
    /\ now = StartOfTime

NextQuests ==
    /\ nops < MaxQuestOps
    /\ \/ \E u \in UserIds, t \in ReqQuestTypes : MarkQuestDone(u, SeedPsn, t)
       \/ ResetWeeklyQuests

SpecQuests == InitQuests /\ [][NextQuests]_vars

\* The four flags of a row.
Flags(row) == <<row.hellmode, row.story, row.survival, row.trials>>

\* C2: after reset_weekly_quests every row left has its four flags 0; a
\* user's row and its all_completed are kept if and only if the four flags
\* were 1 (with all_completed > 0) before the reset; every other row is
\* deleted.
C2_ResetKeepsCompletedStreaks ==
    \A after \in {reset_weekly_quests(quests_done)} :
        \A u \in AnyUserIds :
            LET row == quests_done[u]
                kept == row # NoRow /\ Flags(row) = <<1, 1, 1, 1>>
            IN  /\ (after[u] # NoRow) <=> kept
                /\ kept => row.all_completed > 0
                /\ after[u] # NoRow
                   => /\ Flags(after[u]) = <<0, 0, 0, 0>>
                      /\ after[u].all_completed = row.all_completed

\* C2 witness: a reset has kept the row of a user who had completed the week
\* and deleted the row of a user who had not.
C2_Witness ==
    /\ resp.op = "reset_weekly_quests"
    /\ quests_done[1] # NoRow /\ quests_done[1].all_completed = 5
    /\ Flags(quests_done[1]) = <<0, 0, 0, 0>>
    /\ quests_done[2] = NoRow

MarkInputs == UserIds \X ReqQuestTypes

\* C3: mark_quest_done raises all_completed by exactly 1 in the call that
\* brings the number of completed quests from fewer than 4 to 4 and in no
\* other call; marking a quest that is already done changes neither the
\* flags nor all_completed; all_completed grows by at most 1 between two
\* consecutive weekly resets.
C3_StreakGrowsOncePerWeek ==
    /\ \A i \in MarkInputs :
         \A out \in {mark_quest_done(i[1], SeedPsn, i[2])} :
            LET before == IF quests_done[i[1]] = NoRow THEN 0
                          ELSE CompletedCount(quests_done[i[1]])
                row == out.quests_done[i[1]]
            IN  out.ok =>
                /\ StreakOf(out.quests_done, i[1]) - StreakOf(quests_done, i[1])
                     = IF before < 4 /\ CompletedCount(row) = 4 THEN 1 ELSE 0
                /\ (quests_done[i[1]] # NoRow /\ quests_done[i[1]][i[2]] = 1)
                   => /\ Flags(row) = Flags(quests_done[i[1]])
                      /\ row.all_completed = quests_done[i[1]].all_completed
    /\ \A u \in AnyUserIds : StreakOf(quests_done, u) - week_ac[u] \in {0, 1}

\* C3 witness: a user who had completed the week, and whose streak had grown
\* by 1, has marked a quest again.
C3_Witness ==
    /\ resp = Response("mark_quest_done", 200, "ok")
    /\ nops >= 2
    /\ quests_done[2] # NoRow /\ Flags(quests_done[2]) = <<1, 1, 1, 1>>
    /\ quests_done[2].all_completed = 1 /\ week_ac[2] = 0
    /\ quests_done[1] # NoRow /\ Flags(quests_done[1]) = <<1, 1, 1, 0>>

-----------------------------------------------------------------------------
(* reset_quests_done.py: the script that resets the weekly quests.         *)

\* datetime.astimezone(timezone(timedelta(hours=3))): the local reading.
astimezone_moscow(t) == t + Hours(3)

\* datetime.weekday() of a local reading: 1970-01-01 was a Thursday (3).
weekday(local) == ((local \div Hours(24)) + 3) % 7

\* datetime.hour of a local reading.
hour(local) == (local % Hours(24)) \div TicksPerHour

\* now_moscow.replace(hour=9, minute=0, second=0, microsecond=0)
replace_hour_9(local) == (local \div Hours(24)) * Hours(24) + Hours(9)

\* get_last_reset_time: the logged timestamp, <<>> for None.
get_last_reset_time(log) == log

\* set_last_reset_time: the single row of quests_reset_log is replaced.
set_last_reset_time(timestamp) == <<IntTimestamp(timestamp)>>

\* The comparison with the last reset left out: every run resets.
LastResetIgnored(last_reset_moscow, saturday_09) == TRUE

\* last_reset_moscow < saturday_09
LastResetBefore(last_reset_moscow, saturday_09) == last_reset_moscow < saturday_09

\* should_reset_quests at time t with the reset log as given.
should_reset_quests(t, log) ==
    LET now_moscow == astimezone_moscow(t)
        last_reset_timestamp == get_last_reset_time(log)
    IN  IF weekday(now_moscow) # 5 THEN FALSE
        ELSE IF hour(now_moscow) < 9 THEN FALSE
        ELSE IF last_reset_timestamp = <<>> THEN TRUE
        ELSE LastResetBefore(astimezone_moscow(last_reset_timestamp[1]),
                             replace_hour_9(now_moscow))

\* main of reset_quests_done.py: when a reset is due the quests are reset
\* and the time of the reset is logged; otherwise nothing is written.
reset_quests_done_main ==
    IF should_reset_quests(now, quests_reset_log)
    THEN [reset |-> TRUE,
          quests_done |-> reset_weekly_quests(quests_done),
          quests_reset_log |-> set_last_reset_time(now)]
    ELSE [reset |-> FALSE,
          quests_done |-> quests_done,
          quests_reset_log |-> quests_reset_log]

\* The script is run.
ResetScriptMain ==
    \E out \in {reset_quests_done_main} :
        /\ quests_done' = out.quests_done
        /\ quests_reset_log' = out.quests_reset_log
        /\ week_ac' = IF out.reset
                      THEN [u \in AnyUserIds |-> StreakOf(out.quests_done, u)]
                      ELSE week_ac
        /\ resp' = Response("reset_quests_done", 200,
                            IF out.reset THEN "reset" ELSE "not needed")
        /\ nops' = nops + 1
        /\ UNCHANGED <<users, mastery, trophies, recent_events, sideTables, now, farVars>>

MaxWeeks == 2           \* weeks the clock runs through in SpecResetScript
MaxScriptOps == 4       \* script runs and marked quests in SpecResetScript

\* The instants of a week at which something happens, from its Saturday
\* 08:00 Moscow time: Sat 08:00, 09:00, 09:30, 23:30, Sun 00:00, Fri 12:00.
ClockOffsets == {0, Hours(1), Hours(1) + 1, Hours(15) + 1, Hours(16), Hours(148)}

ClockInstants ==
    {StartOfTime + Hours(168 * w) + o : w \in 0..(MaxWeeks - 1), o \in ClockOffsets}

\* Time passes.
Tick ==
    /\ \E t \in ClockInstants : t > now /\ now' = t
    /\ UNCHANGED <<users, mastery, trophies, recent_events, sideTables, quests_done,
                   quests_reset_log, week_ac, resp, nops, farVars>>

InitResetScript == InitQuests

NextResetScript ==
    \/ Tick
    \/ nops < MaxScriptOps /\ ResetScriptMain
    \/ nops < MaxScriptOps
       /\ \E u \in UserIds, t \in valid_quest_types : MarkQuestDone(u, SeedPsn, t)

SpecResetScript == InitResetScript /\ [][NextResetScript]_vars

\* The number of Saturdays 09:00 Moscow time that have begun by time t.
PeriodOf(t) == (t + Hours(3) - Hours(2 * 24 + 9)) \div Hours(168)

-----------------------------------------------------------------------------
(* quest_generator.py and generate_additional_quest_only.py: the scripts   *)
(* that draw the HellMode quests.  A run is followed step by step: one     *)
(* step per iteration of a loop, one for the code after a loop, one for    *)
(* the saving.                                                             *)

MAX_ATTEMPTS == 10

BASE_REWARD == 350

\* The section 'hellmode' of quests.json (load_quests_config): two items per
\* field, some with a bonus.
hellmode_config ==
    [map   |-> {[slug |-> "map-a", bonus |-> 50], [slug |-> "map-b"]},
     emote |-> {[slug |-> "emote-a"], [slug |-> "emote-b"]},
     class |-> {[slug |-> "class-a"], [slug |-> "class-b", bonus |-> 100]},
     gear  |-> {[slug |-> "gear-a"], [slug |-> "gear-b"]}]

\* item.get('bonus', 0)
BonusOf(item) == IF "bonus" \in DOMAIN item THEN item.bonus ELSE 0

\* The quest generate_random_quest returns for the four items drawn.
QuestOf(map_item, emote_item, class_item, gear_item) ==
    [map_slug |-> map_item.slug, emote_slug |-> emote_item.slug,
     class_slug |-> class_item.slug, gear_slug |-> gear_item.slug,
     reward |-> BASE_REWARD + BonusOf(map_item) + BonusOf(class_item) + BonusOf(gear_item)]

\* generate_random_quest: the quests random.choice can produce.
generate_random_quest(config) ==
    {QuestOf(m, e, c, g) : m \in config.map, e \in config.emote,
                           c \in config.class, g \in config.gear}

fields_to_check == {"map_slug", "emote_slug", "class_slug", "gear_slug"}

\* has_duplicates(new_quest, *current_quests): some field of the new quest
\* equals that field of a current quest; None (NoRow) is skipped.
has_duplicates(new_quest, current_quests) ==
    \E i \in 1..Len(current_quests) :
        /\ current_quests[i] # NoRow
        /\ \E field \in fields_to_check : new_quest[field] = current_quests[i][field]

\* get_current_hellmode_quest(DB_PATH, quest_id=...) and
\* get_additional_hellmode_quest(DB_PATH): the row of the slot, None when
\* the slot has no quest.
get_current_hellmode_quest(table, quest_id) == table[quest_id]

get_additional_hellmode_quest(table) == table[2]

\* update_hellmode_quest(..., quest_id=...): the row of the slot is replaced.
update_hellmode_quest(table, quest, quest_id) == [table EXCEPT ![quest_id] = quest]

\* What a step of a script that saves nothing leaves alone.
genFrame ==
    <<users, mastery, trophies, recent_events, sideTables, questVars, siteVars, hellmode_quest, resp, nops>>

\* main starts: the current quests are read.
GenStart(script) ==
    /\ gen.pc = "idle"
    /\ gen' = [pc |-> IF script = "quest_generator" THEN "weekly_loop"
                      ELSE "additional_loop",
               script |-> script,
               attempt |-> 1,
               current_weekly_quest |-> get_current_hellmode_quest(hellmode_quest, 1),
               current_additional_quest |-> get_additional_hellmode_quest(hellmode_quest),
               generated |-> NoRow,
               new_weekly_quest |-> NoRow,
               new_additional_quest |-> NoRow]
    /\ UNCHANGED genFrame

\* One iteration of the loop for the weekly quest (quest_generator.py).
WeeklyAttempt ==
    /\ gen.pc = "weekly_loop"
    /\ \E generated \in generate_random_quest(hellmode_config) :
         gen' = IF ~has_duplicates(generated, <<gen.current_weekly_quest,
                                                gen.current_additional_quest>>)
                THEN [gen EXCEPT !.generated = generated,
                                 !.new_weekly_quest = generated,
                                 !.pc = "weekly_after_loop"]
                ELSE IF gen.attempt < MAX_ATTEMPTS
                THEN [gen EXCEPT !.generated = generated, !.attempt = @ + 1]
                ELSE [gen EXCEPT !.generated = generated, !.pc = "weekly_after_loop"]
    /\ UNCHANGED genFrame

\* After the loop: "if not new_weekly_quest" a quest is generated once more
\* and taken without a check.
WeeklyAfterLoop ==
    /\ gen.pc = "weekly_after_loop"
    /\ \E fresh \in generate_random_quest(hellmode_config) :
         gen' = [gen EXCEPT !.new_weekly_quest =
                                IF gen.new_weekly_quest = NoRow THEN fresh ELSE @,
                            !.attempt = 1,
                            !.pc = "additional_loop"]
    /\ UNCHANGED genFrame

\* One iteration of the loop for the additional quest (both scripts; the new
\* weekly quest is None in generate_additional_quest_only.py).
AdditionalAttempt ==
    /\ gen.pc = "additional_loop"
    /\ \E generated \in generate_random_quest(hellmode_config) :
         gen' = IF ~has_duplicates(generated, <<gen.new_weekly_quest,
                                                gen.current_weekly_quest,
                                                gen.current_additional_quest>>)
                THEN [gen EXCEPT !.generated = generated,
                                 !.new_additional_quest = generated,
                                 !.pc = "additional_after_loop"]
                ELSE IF gen.attempt < MAX_ATTEMPTS
                THEN [gen EXCEPT !.generated = generated, !.attempt = @ + 1]
                ELSE [gen EXCEPT !.generated = generated, !.pc = "additional_after_loop"]
    /\ UNCHANGED genFrame

\* After the loop: "if not new_additional_quest" a quest is generated once
\* more and taken without a check.
AdditionalAfterLoop ==
    /\ gen.pc = "additional_after_loop"
    /\ \E fresh \in generate_random_quest(hellmode_config) :
         gen' = [gen EXCEPT !.new_additional_quest =
                                IF gen.new_additional_quest = NoRow THEN fresh ELSE @,
                            !.pc = "save"]
    /\ UNCHANGED genFrame

\* The quests chosen are saved: both by quest_generator.py, the additional
\* one alone by generate_additional_quest_only.py.
SaveQuests ==
    /\ gen.pc = "save"
    /\ hellmode_quest' =
         IF gen.script = "quest_generator"
         THEN update_hellmode_quest(
                  update_hellmode_quest(hellmode_quest, gen.new_weekly_quest, 1),
                  gen.new_additional_quest, 2)
         ELSE update_hellmode_quest(hellmode_quest, gen.new_additional_quest, 2)
    /\ gen' = [gen EXCEPT !.pc = "done"]
    /\ resp' = Response(gen.script, 200, "saved")
    /\ UNCHANGED <<users, mastery, trophies, recent_events, sideTables, questVars, siteVars, nops>>

\* The quest slots before a run: empty, the weekly quest alone, or both.
SeedHellmodeQuests ==
    LET a == QuestOf([slug |-> "map-a", bonus |-> 50], [slug |-> "emote-a"],
                     [slug |-> "class-a"], [slug |-> "gear-a"])
        b == QuestOf([slug |-> "map-b"], [slug |-> "emote-b"],
                     [slug |-> "class-b", bonus |-> 100], [slug |-> "gear-b"])
    IN  {[id \in {1, 2} |-> NoRow],
         [id \in {1, 2} |-> IF id = 1 THEN a ELSE NoRow],
         [id \in {1, 2} |-> IF id = 1 THEN a ELSE b]}

InitGenerator ==
    /\ InitTables
    /\ InitNoQuests
    /\ mastery = [u \in AnyUserIds |-> NoRow]
    /\ InitNoSite
    /\ hellmode_quest \in SeedHellmodeQuests
    /\ gen = [pc |-> "idle"]

NextGenerator ==
    \/ \E script \in {"quest_generator", "generate_additional_quest_only"} :
          GenStart(script)
    \/ WeeklyAttempt
    \/ WeeklyAfterLoop
    \/ AdditionalAttempt
    \/ AdditionalAfterLoop
    \/ SaveQuests

SpecGenerator == InitGenerator /\ [][NextGenerator]_vars

\* C5: the quest taken for a slot is the last candidate generated in the
\* slot's loop of at most MAX_ATTEMPTS attempts: the first candidate that
\* shares no slug with an active quest, or, when every attempt was rejected,
\* the candidate of the last attempt although it duplicates.
C5_FallbackAcceptsLastCandidate ==
    /\ (gen.pc = "additional_loop" /\ gen.script = "quest_generator" /\ gen.attempt = 1
        /\ gen.new_additional_quest = NoRow)
       => gen.new_weekly_quest = gen.generated
    /\ gen.pc = "save" => gen.new_additional_quest = gen.generated

-----------------------------------------------------------------------------
(* The user endpoints of app.py: authentication by Telegram initData.     *)
(* security.py is not part of the sources; validate_init_data and         *)
(* get_user_id_from_init_data are modelled from their use in               *)
(* get_current_user.  An initData string is the sequence of its fields.   *)

\* initData of user u, signed with the bot token or with another key.
InitDataOf(u, signature) == <<[k |-> "user", v |-> u], [k |-> "hash", v |-> signature]>>

\* The value of field k of an initData string, <<>> when it has none.
FieldOf(init_data, k) ==
    IF \E i \in 1..Len(init_data) : init_data[i].k = k
    THEN <<init_data[CHOOSE i \in 1..Len(init_data) : init_data[i].k = k].v>>
    ELSE <<>>

\* validate_init_data(init_data, BOT_TOKEN): the parsed data when the hash
\* is the HMAC under the bot token, None (<<>>) otherwise.
validate_init_data(x_telegram_init_data, bot_token) ==
    IF FieldOf(x_telegram_init_data, "hash") = <<bot_token>>
    THEN x_telegram_init_data
    ELSE <<>>

\* get_user_id_from_init_data: the id of the user field, None (0) without it.
get_user_id_from_init_data(init_data) ==
    IF FieldOf(init_data, "user") = <<>> THEN 0 ELSE FieldOf(init_data, "user")[1]

\* A check of the header alone, without the validation of the hash.
get_current_user_unsigned(x_telegram_init_data) ==
    IF ~x_telegram_init_data.present \/ x_telegram_init_data.value = <<>>
    THEN [ok |-> FALSE, detail |-> "no initData"]
    ELSE [ok |-> TRUE, user_id |-> get_user_id_from_init_data(x_telegram_init_data.value)]

\* get_current_user: the user id, or the reason of the 401.
get_current_user(x_telegram_init_data) ==
    IF ~x_telegram_init_data.present \/ x_telegram_init_data.value = <<>>
    THEN [ok |-> FALSE, detail |-> "no initData"]
    ELSE LET init_data == validate_init_data(x_telegram_init_data.value, BOT_TOKEN)
         IN  IF init_data = <<>>
             THEN [ok |-> FALSE, detail |-> "invalid initData"]
             ELSE IF get_user_id_from_init_data(init_data) = 0
             THEN [ok |-> FALSE, detail |-> "no user id"]
             ELSE [ok |-> TRUE, user_id |-> get_user_id_from_init_data(init_data)]

\* The X-Telegram-Init-Data headers of the requests: none, empty, signed for
\* each user, forged, and signed without a user.
InitDataHeaders ==
    {NoHeader, Header(<<>>), Header(<<[k |-> "hash", v |-> BOT_TOKEN]>>)}
    \cup {Header(InitDataOf(u, BOT_TOKEN)) : u \in AnyUserIds}
    \cup {Header(InitDataOf(1, <<"other">>))}

\* The headers that name a user and are signed.
SignedHeaders == {Header(InitDataOf(u, BOT_TOKEN)) : u \in AnyUserIds}

-----------------------------------------------------------------------------
(* Builds and reactions (db.py, app.py).                                   *)

\* A row of builds.
BuildRow(user_id, name, class, tags, description, photo_1, photo_2, is_public) ==
    [user_id |-> user_id, author |-> SeedPsn, name |-> name, class |-> class,
     tags |-> tags, description |-> description, photo_1 |-> photo_1,
     photo_2 |-> photo_2, is_public |-> is_public]

\* get_build: the row, None (NoRow) when there is none.
get_build(b, build_id) == b[build_id]

\* The sum of f over the set S.
RECURSIVE SumOver(_, _)
SumOver(f, S) ==
    IF S = {} THEN 0
    ELSE LET x == CHOOSE y \in S : TRUE IN f[x] + SumOver(f, S \ {x})

\* _get_reaction_stats: (likes_count, dislikes_count) of a build.
get_reaction_stats(r, build_id) ==
    <<SumOver([u \in AnyUserIds |-> r[build_id][u].like], AnyUserIds),
      SumOver([u \in AnyUserIds |-> r[build_id][u].dislike], AnyUserIds)>>

\* The comparison of toggle_reaction that never finds the same type.
SameReactionNever(existing_type, reaction_type) == FALSE

\* existing_type == reaction_type
SameReaction(existing_type, reaction_type) == existing_type = reaction_type

\* toggle_reaction: the outcomes, one for each row the SELECT may return.
\* Without a row of the pair a row is inserted; with a row of the same type
\* the rows of the pair are deleted; with a row of the other type the rows
\* of the pair are updated to the new type.
toggle_reaction(r, build_id, user_id, reaction_type) ==
    LET rows == r[build_id][user_id]
        existing == {t \in {"like", "dislike"} : rows[t] > 0}
        Result(after, final_reaction) ==
            [raised |-> FALSE,
             build_reactions |-> after,
             likes_count |-> get_reaction_stats(after, build_id)[1],
             dislikes_count |-> get_reaction_stats(after, build_id)[2],
             current_user_reaction |-> final_reaction]
    IN  IF reaction_type \notin {"like", "dislike"}
        THEN {[raised |-> TRUE, build_reactions |-> r]}
        ELSE IF existing = {}
        THEN {Result([r EXCEPT ![build_id][user_id][reaction_type] = 1], reaction_type)}
        ELSE {IF SameReaction(existing_type, reaction_type)
              THEN Result([r EXCEPT ![build_id][user_id] = [like |-> 0, dislike |-> 0]],
                          "None")
              ELSE Result([r EXCEPT ![build_id][user_id] =
                              IF reaction_type = "like"
                              THEN [like |-> rows.like + rows.dislike, dislike |-> 0]
                              ELSE [like |-> 0, dislike |-> rows.like + rows.dislike]],
                          reaction_type)
              : existing_type \in existing}

ResponseWith(op, status, detail, body) ==
    [op |-> op, status |-> status, detail |-> detail, body |-> body]

\* POST /api/builds.toggleReaction: the outcomes of the request.
toggle_reaction_endpoint(x_telegram_init_data, build_id, reaction_type) ==
    LET auth == get_current_user(x_telegram_init_data)
        build == get_build(builds, build_id)
        Rejected(status, detail) ==
            {[resp |-> Response("builds.toggleReaction", status, detail),
              build_reactions |-> build_reactions]}
    IN  IF ~auth.ok THEN Rejected(401, auth.detail)
        ELSE IF build = NoRow THEN Rejected(404, "build not found")
        ELSE IF build.is_public = 0 THEN Rejected(403, "build not public")
        ELSE IF reaction_type \notin {"like", "dislike"}
        THEN Rejected(400, "reaction type")
        ELSE {IF result.raised
              THEN [resp |-> Response("builds.toggleReaction", 500, "error"),
                    build_reactions |-> build_reactions]
              ELSE [resp |-> ResponseWith("builds.toggleReaction", 200, "ok",
                                [likes_count |-> result.likes_count,
                                 dislikes_count |-> result.dislikes_count,
                                 current_user_reaction |-> result.current_user_reaction]),
                    build_reactions |-> result.build_reactions]
              : result \in toggle_reaction(build_reactions, build_id,
                                           auth.user_id, reaction_type)}

siteFrame == <<users, mastery, trophies, recent_events, sideTables, questVars, genVars>>

ToggleReaction(x_telegram_init_data, build_id, reaction_type) ==
    \E out \in toggle_reaction_endpoint(x_telegram_init_data, build_id, reaction_type) :
        /\ resp' = out.resp
        /\ build_reactions' = out.build_reactions
        /\ nops' = nops + 1
        /\ UNCHANGED <<builds, comments, files, siteFrame>>

-----------------------------------------------------------------------------
(* SpecReactions: reactions toggled on the builds of the start.            *)

MaxReactionOps == 3     \* requests handled in SpecReactions

\* The builds at the start: build 2 is private, the others are public.
SeedBuild(b) ==
    IF b \notin BuildIds THEN NoRow
    ELSE BuildRow(((b - 1) % NumUsers) + 1, <<"name">>, <<"class">>, <<"tag">>, <<"text">>,
                  <<"builds", b, "photo_1.jpg">>, <<"builds", b, "photo_2.jpg">>,
                  IF b = 2 THEN 0 ELSE 1)

\* The files of the builds at the start.
SeedFiles ==
    [p \in Paths |-> IF p[1] = "builds" /\ p[2] \in BuildIds THEN "seed" ELSE "absent"]

InitBuilds ==
    /\ InitTables
    /\ InitNoQuests
    /\ InitNoGen
    /\ mastery = [u \in AnyUserIds |-> NoRow]
    /\ builds = [b \in AnyBuildIds |-> SeedBuild(b)]
    /\ build_reactions =
         [b \in AnyBuildIds |-> [u \in AnyUserIds |-> [like |-> 0, dislike |-> 0]]]
    /\ comments = <<>>
    /\ files = SeedFiles

ReqReactionTypes == {"like", "dislike", "love"}

NextReactions ==
    /\ nops < MaxReactionOps
    /\ \E h \in InitDataHeaders, b \in AnyBuildIds, t \in ReqReactionTypes :
          ToggleReaction(h, b, t)

SpecReactions == InitBuilds /\ [][NextReactions]_vars

\* The reaction of a user to a build: "None", "like" or "dislike" ("many"
\* when the pair has more than one row).
ReactionOf(r, b, u) ==
    IF r[b][u].like + r[b][u].dislike = 0 THEN "None"
    ELSE IF r[b][u].like + r[b][u].dislike > 1 THEN "many"
    ELSE IF r[b][u].like = 1 THEN "like" ELSE "dislike"

\* The three-state machine: no reaction -> t, t -> no reaction, other -> t.
Toggled(current, t) == IF current = t THEN "None" ELSE t

\* C6: for a user and a build toggle_reaction is a three-state machine over
\* none, like and dislike (none -> t, t -> none, the other type -> t), it
\* touches no other pair, and the likes_count and dislikes_count returned,
\* also by the endpoint, are the numbers of like and dislike rows of the
\* build after the change.
C6_ReactionThreeStates ==
    /\ \A b \in AnyBuildIds, u \in AnyUserIds, t \in {"like", "dislike"} :
         /\ ReactionOf(build_reactions, b, u) # "many"
         /\ \A out \in toggle_reaction(build_reactions, b, u, t) :
               LET after == out.build_reactions
               IN  /\ ~out.raised
                   /\ ReactionOf(after, b, u) = Toggled(ReactionOf(build_reactions, b, u), t)
                   /\ out.current_user_reaction = ReactionOf(after, b, u)
                   /\ \A c \in AnyBuildIds, v \in AnyUserIds :
                         <<c, v>> # <<b, u>> => after[c][v] = build_reactions[c][v]
                   /\ out.likes_count =
                         Cardinality({v \in AnyUserIds : ReactionOf(after, b, v) = "like"})
                   /\ out.dislikes_count =
                         Cardinality({v \in AnyUserIds : ReactionOf(after, b, v) = "dislike"})
    /\ \A h \in SignedHeaders, b \in AnyBuildIds, t \in ReqReactionTypes :
         \A out \in toggle_reaction_endpoint(h, b, t) :
            out.resp.status = 200
            => LET u == get_current_user(h).user_id
                   after == out.build_reactions
               IN  /\ ReactionOf(after, b, u) = Toggled(ReactionOf(build_reactions, b, u), t)
                   /\ out.resp.body.current_user_reaction = ReactionOf(after, b, u)
                   /\ out.resp.body.likes_count =
                         Cardinality({v \in AnyUserIds : ReactionOf(after, b, v) = "like"})
                   /\ out.resp.body.dislikes_count =
                         Cardinality({v \in AnyUserIds : ReactionOf(after, b, v) = "dislike"})

\* C6 witness: a user has replaced their like of build 1 by a dislike while
\* another user's like stays: one like and one dislike are returned.
C6_Witness ==
    /\ resp.op = "builds.toggleReaction" /\ resp.status = 200
    /\ resp.body = [likes_count |-> 1, dislikes_count |-> 1,
                    current_user_reaction |-> "dislike"]
    /\ \E u, v \in AnyUserIds :
         /\ ReactionOf(build_reactions, 1, u) = "dislike"
         /\ ReactionOf(build_reactions, 1, v) = "like"

-----------------------------------------------------------------------------
(* builds.togglePublish, builds.delete, builds.update and the upload of an *)
(* avatar (app.py), with the db.py functions they call.  A text is the     *)
(* sequence of its parts; " " is white space and "," a comma.              *)

BUILD_UPDATE_FIELDS == {"name", "class", "tags", "description", "photo_1", "photo_2"}

\* text.split(','): the parts between the commas.
RECURSIVE SplitComma(_)
SplitComma(text) ==
    IF \E i \in 1..Len(text) : text[i] = ","
    THEN LET i == CHOOSE j \in 1..Len(text) :
                      text[j] = "," /\ \A k \in 1..(j - 1) : text[k] # ","
         IN  <<SubSeq(text, 1, i - 1)>> \o SplitComma(SubSeq(text, i + 1, Len(text)))
    ELSE <<text>>

\* [t.strip() for t in tags.split(',') if t.strip()]
StripItems(items) ==
    SelectSeq([i \in 1..Len(items) |-> Strip(items[i])], LAMBDA item : item # <<>>)

\* parse_tags for a comma separated text (the JSON form is not modelled).
parse_tags(tags) == IF tags = <<>> THEN <<>> ELSE StripItems(SplitComma(tags))

\* ','.join(items)
RECURSIVE join_comma_separated_list(_)
join_comma_separated_list(items) ==
    IF items = <<>> THEN <<>>
    ELSE IF Len(items) = 1 THEN items[1]
    ELSE items[1] \o <<",">> \o join_comma_separated_list(Tail(items))

\* The WHERE clause of the build writes without the test of the owner.
OwnedRowAny(b, build_id, user_id) == b[build_id] # NoRow

\* WHERE build_id = ? AND user_id = ?: the row exists and is the user's.
OwnedRow(b, build_id, user_id) ==
    b[build_id] # NoRow /\ b[build_id].user_id = user_id

\* update_build_visibility that switches the column to its other value.
update_build_visibility_flip(b, build_id, user_id, is_public) ==
    IF OwnedRow(b, build_id, user_id)
    THEN [ok |-> TRUE, builds |-> [b EXCEPT ![build_id].is_public = 1 - @]]
    ELSE [ok |-> FALSE, builds |-> b]

\* update_build_visibility
update_build_visibility(b, build_id, user_id, is_public) ==
    IF OwnedRow(b, build_id, user_id)
    THEN [ok |-> TRUE, builds |-> [b EXCEPT ![build_id].is_public = is_public]]
    ELSE [ok |-> FALSE, builds |-> b]

\* delete_build
delete_build(b, build_id, user_id) ==
    IF OwnedRow(b, build_id, user_id)
    THEN [ok |-> TRUE, builds |-> [b EXCEPT ![build_id] = NoRow]]
    ELSE [ok |-> FALSE, builds |-> b]

\* update_build: the fields of build_data that may be updated are written,
\* the tags joined by commas.
update_build(b, build_id, user_id, build_data) ==
    LET keys == DOMAIN build_data \cap BUILD_UPDATE_FIELDS
        row == b[build_id]
        Written(f) == IF f \notin keys THEN row[f]
                      ELSE IF f = "tags" THEN join_comma_separated_list(build_data.tags)
                      ELSE build_data[f]
    IN  IF ~OwnedRow(b, build_id, user_id) \/ keys = {}
        THEN [ok |-> FALSE, builds |-> b]
        ELSE [ok |-> TRUE,
              builds |-> [b EXCEPT ![build_id] =
                            BuildRow(row.user_id, Written("name"), Written("class"),
                                     Written("tags"), Written("description"),
                                     Written("photo_1"), Written("photo_2"),
                                     row.is_public)]]

\* update_avatar_url
update_avatar_url(us, user_id, avatar_url) ==
    IF us[user_id] = NoRow THEN us ELSE [us EXCEPT ![user_id].avatar_url = avatar_url]

\* POST /api/builds.togglePublish
toggle_build_publish_on(b, x_telegram_init_data, build_id, is_public) ==
    LET auth == get_current_user(x_telegram_init_data)
        done == update_build_visibility(b, build_id, auth.user_id, is_public)
        Rejected(status, detail) ==
            [resp |-> Response("builds.togglePublish", status, detail), builds |-> b]
    IN  IF ~auth.ok THEN Rejected(401, auth.detail)
        ELSE IF is_public \notin {0, 1} THEN Rejected(400, "is_public")
        ELSE IF ~done.ok THEN Rejected(404, "not found or not owner")
        ELSE [resp |-> Response("builds.togglePublish", 200, "ok"), builds |-> done.builds]

\* The request on the builds table as it is.
toggle_build_publish(x_telegram_init_data, build_id, is_public) ==
    toggle_build_publish_on(builds, x_telegram_init_data, build_id, is_public)

\* The directory of a build left in place.
rmtree_build_nothing(f, build_id) == f

\* shutil.rmtree of the directory of a build.
rmtree_build(f, build_id) ==
    [p \in Paths |-> IF p[1] = "builds" /\ p[2] = build_id THEN "absent" ELSE f[p]]

\* DELETE /api/builds.delete
delete_build_endpoint(x_telegram_init_data, build_id) ==
    LET auth == get_current_user(x_telegram_init_data)
        done == delete_build(builds, build_id, auth.user_id)
        Rejected(status, detail) ==
            [resp |-> Response("builds.delete", status, detail),
             builds |-> builds, files |-> files]
    IN  IF ~auth.ok THEN Rejected(401, auth.detail)
        ELSE IF ~done.ok THEN Rejected(404, "not found or not owner")
        ELSE [resp |-> Response("builds.delete", 200, "ok"),
              builds |-> done.builds, files |-> rmtree_build(files, build_id)]

\* The photo of a request: not sent, an empty file, an image, or a file
\* that Pillow cannot open.
ReqPhotos == {"none", "empty", "image", "corrupt"}

\* process_image_for_upload: the file of the photo is written.
process_image_for_upload(f, path) == [f EXCEPT ![path] = "upload"]

\* POST /api/builds.update
update_build_endpoint(x_telegram_init_data, build_id, name, class_name, tags, description, photo_1, photo_2) ==
    LET auth == get_current_user(x_telegram_init_data)
        build == get_build(builds, build_id)
        photo_1_path == <<"builds", build_id, "photo_1.jpg">>
        photo_2_path == <<"builds", build_id, "photo_2.jpg">>
        files_1 == IF photo_1 = "image" THEN process_image_for_upload(files, photo_1_path)
                   ELSE files
        files_2 == IF photo_2 = "image" THEN process_image_for_upload(files_1, photo_2_path)
                   ELSE files_1
        build_data ==
            [name |-> Strip(name), class |-> Strip(class_name),
             tags |-> parse_tags(tags), description |-> Strip(description)]
            @@ (IF photo_1 = "image" THEN "photo_1" :> photo_1_path
                ELSE [k \in {} |-> <<>>])
            @@ (IF photo_2 = "image" THEN "photo_2" :> photo_2_path
                ELSE [k \in {} |-> <<>>])
        done == update_build(builds, build_id, auth.user_id, build_data)
        Rejected(status, detail, f) ==
            [resp |-> Response("builds.update", status, detail),
             builds |-> builds, files |-> f]
    IN  IF ~auth.ok THEN Rejected(401, auth.detail, files)
        ELSE IF build = NoRow THEN Rejected(404, "build not found", files)
        ELSE IF build.user_id # auth.user_id THEN Rejected(403, "not owner", files)
        ELSE IF Strip(name) = <<>> THEN Rejected(400, "name", files)
        ELSE IF Strip(class_name) = <<>> THEN Rejected(400, "class", files)
        ELSE IF photo_1 = "corrupt" THEN Rejected(500, "photo_1", files)
        ELSE IF photo_2 = "corrupt" THEN Rejected(500, "photo_2", files_1)
        ELSE IF ~done.ok THEN Rejected(500, "update failed", files_2)
        ELSE [resp |-> Response("builds.update", 200, "ok"),
              builds |-> done.builds, files |-> files_2]

\* The avatar of a request: an image, a file of another content type, or
\* an image that Pillow cannot open.
ReqAvatars == {"image", "text", "corrupt"}

\* validate_image_file: the content type starts with 'image/'.
validate_image_file(avatar) == avatar \in {"image", "corrupt"}

\* POST /api/users/avatars/{target_user_id}/upload
upload_avatar(x_telegram_init_data, target_user_id, avatar) ==
    LET auth == get_current_user(x_telegram_init_data)
        avatar_path == <<"users", auth.user_id, "avatar.jpg">>
        Rejected(status, detail) ==
            [resp |-> Response("avatars.upload", status, detail),
             users |-> users, files |-> files]
    IN  IF ~auth.ok THEN Rejected(401, auth.detail)
        ELSE IF target_user_id # auth.user_id THEN Rejected(403, "not own avatar")
        ELSE IF ~validate_image_file(avatar) THEN Rejected(400, "not an image")
        ELSE IF avatar = "corrupt" THEN Rejected(500, "avatar")
        ELSE [resp |-> Response("avatars.upload", 200, "ok"),
              users |-> update_avatar_url(users, auth.user_id, avatar_path),
              files |-> process_image_for_upload(files, avatar_path)]

TogglePublish(x_telegram_init_data, build_id, is_public) ==
    \E out \in {toggle_build_publish(x_telegram_init_data, build_id, is_public)} :
        /\ resp' = out.resp
        /\ builds' = out.builds
        /\ nops' = nops + 1
        /\ UNCHANGED <<build_reactions, comments, files, siteFrame>>

DeleteBuild(x_telegram_init_data, build_id) ==
    \E out \in {delete_build_endpoint(x_telegram_init_data, build_id)} :
        /\ resp' = out.resp
        /\ builds' = out.builds
        /\ files' = out.files
        /\ nops' = nops + 1
        /\ UNCHANGED <<build_reactions, comments, siteFrame>>

UpdateBuild(x_telegram_init_data, build_id, name, class_name, tags, description, photo_1, photo_2) ==
    \E out \in {update_build_endpoint(x_telegram_init_data, build_id, name, class_name,
                                       tags, description, photo_1, photo_2)} :
        /\ resp' = out.resp
        /\ builds' = out.builds
        /\ files' = out.files
        /\ nops' = nops + 1
        /\ UNCHANGED <<build_reactions, comments, siteFrame>>

UploadAvatar(x_telegram_init_data, target_user_id, avatar) ==
    \E out \in {upload_avatar(x_telegram_init_data, target_user_id, avatar)} :
        /\ resp' = out.resp
        /\ users' = out.users
        /\ files' = out.files
        /\ nops' = nops + 1
        /\ UNCHANGED <<builds, build_reactions, comments, mastery, trophies,
                       recent_events, sideTables, questVars, genVars>>

-----------------------------------------------------------------------------
(* SpecBuilds: the builds of the start are published, updated and deleted  *)
(* and avatars uploaded, by their owners and by others.                    *)

MaxBuildOps == 2        \* requests handled in SpecBuilds

ReqVisibility == {0, 1, 2}

\* The requests for builds.update: name, class_name, tags, description,
\* photo_1, photo_2.  One with every text filled in and a first photo, one
\* with a blank name, one without a class, one with a second photo only, one
\* whose second photo cannot be opened.
UpdateRequests ==
    LET full == <<<<" ", "new", " ">>, <<"ronin">>, <<"a", ",", " ", "b", ",", " ">>,
                  <<"text", " ">>, "image", "none">>
    IN  {full, [full EXCEPT ![1] = <<" ">>], [full EXCEPT ![2] = <<>>],
         [full EXCEPT ![3] = <<>>, ![5] = "empty", ![6] = "image"],
         [full EXCEPT ![6] = "corrupt"]}

NextBuilds ==
    /\ nops < MaxBuildOps
    /\ \/ \E h \in InitDataHeaders, b \in AnyBuildIds, v \in ReqVisibility :
            TogglePublish(h, b, v)
       \/ \E h \in InitDataHeaders, b \in AnyBuildIds : DeleteBuild(h, b)
       \/ \E h \in InitDataHeaders, b \in AnyBuildIds, r \in UpdateRequests :
            UpdateBuild(h, b, r[1], r[2], r[3], r[4], r[5], r[6])
       \/ \E h \in InitDataHeaders, u \in AnyUserIds, a \in ReqAvatars :
            UploadAvatar(h, u, a)

SpecBuilds == InitBuilds /\ [][NextBuilds]_vars

\* The outcome of a request on a build by the authenticated user of header
\* h changes no build but the caller's own, and for a caller who is not
\* the owner of the build it changes no build and no file and its status is
\* one of the statuses given.
RefusedUnlessOwner(h, b, out, f, statuses) ==
    LET u == get_current_user(h).user_id
        owner == builds[b] # NoRow /\ builds[b].user_id = u
    IN  /\ \A c \in AnyBuildIds : out.builds[c] # builds[c] => c = b /\ owner
        /\ ~owner
           => /\ out.builds = builds
              /\ f = files
              /\ out.resp.status \in statuses

\* The requests on builds by authenticated users are refused unless the
\* caller owns the build, builds.togglePublish with one of toggle_statuses
\* and builds.delete and builds.update with 403 or 404; an avatar is written
\* for the caller's own id only, another target being answered 403.
OnlyOwnerChanges(toggle_statuses) ==
    /\ \A h \in SignedHeaders, b \in AnyBuildIds :
         /\ \A v \in ReqVisibility :
               \A out \in {toggle_build_publish(h, b, v)} :
                  RefusedUnlessOwner(h, b, out, files, toggle_statuses)
         /\ \A out \in {delete_build_endpoint(h, b)} :
               RefusedUnlessOwner(h, b, out, out.files, {403, 404})
         /\ \A r \in UpdateRequests :
               \A out \in {update_build_endpoint(h, b, r[1], r[2], r[3], r[4], r[5], r[6])} :
                  RefusedUnlessOwner(h, b, out, out.files, {403, 404})
    /\ \A h \in SignedHeaders, target \in AnyUserIds, a \in ReqAvatars :
         \A out \in {upload_avatar(h, target, a)} :
            LET u == get_current_user(h).user_id
            IN  /\ target # u
                   => out.resp.status = 403 /\ out.users = users /\ out.files = files
                /\ \A v \in AnyUserIds :
                      (\/ out.users[v] # users[v]
                       \/ out.files[<<"users", v, "avatar.jpg">>]
                            # files[<<"users", v, "avatar.jpg">>])
                      => v = u /\ target = u

\* C10 as stated: builds.update, builds.delete and builds.togglePublish
\* change or delete a build only for its owner; any other caller leaves the
\* build unchanged and is answered 403 or 404; an avatar is uploaded only
\* for the caller's own id.
C10_OthersRefused403Or404 == OnlyOwnerChanges({403, 404})

\* C10 amended: as stated, except that builds.togglePublish answers a caller
\* who is not the owner 400 when is_public is neither 0 nor 1 (the value is
\* validated before the build is looked up) and 404 otherwise.
C10_OnlyOwnerChangesBuild ==
    /\ OnlyOwnerChanges({400, 404})
    /\ \A h \in SignedHeaders, b \in AnyBuildIds, v \in ReqVisibility :
         ~(builds[b] # NoRow /\ builds[b].user_id = get_current_user(h).user_id)
         => toggle_build_publish(h, b, v).resp.status = IF v \in {0, 1} THEN 404 ELSE 400

\* C10 witness: builds.update by a user who does not own the build has been
\* answered 403 and the builds and files are those of the start.
C10_Witness ==
    /\ resp = Response("builds.update", 403, "not owner")
    /\ builds = [b \in AnyBuildIds |-> SeedBuild(b)]
    /\ files = SeedFiles


-----------------------------------------------------------------------------
(* profile.save (app.py) and upsert_user (db.py).  The PSN name and the     *)
(* real name of a request are sequences of characters, "LF" a line feed.    *)

\* The characters of the class [A-Za-z0-9_-].
PsnChars ==
    {"A", "B", "C", "D", "E", "F", "G", "H", "I", "J", "K", "L", "M", "N", "O", "P",
     "Q", "R", "S", "T", "U", "V", "W", "X", "Y", "Z",
     "a", "b", "c", "d", "e", "f", "g", "h", "i", "j", "k", "l", "m", "n", "o", "p",
     "q", "r", "s", "t", "u", "v", "w", "x", "y", "z",
     "0", "1", "2", "3", "4", "5", "6", "7", "8", "9", "_", "-"}

\* validate_psn_format: re.match(r'^[A-Za-z0-9_-]{3,16}$', psn).  The $ of
\* Python also matches before a line feed that ends the string.
validate_psn_format(psn) ==
    LET name == IF psn # <<>> /\ psn[Len(psn)] = "LF"
                THEN SubSeq(psn, 1, Len(psn) - 1) ELSE psn
    IN  /\ psn # <<>>
        /\ Len(name) >= 3
        /\ Len(name) <= 16
        /\ \A i \in 1..Len(name) : name[i] \in PsnChars

\* upsert_user: the tables after the profile is written.  profile_data
\* holds real_name, psn_id and the four lists, and avatar_url or birthday
\* when the caller passes them.
upsert_user(user_id, profile_data) ==
    LET user_exists == users[user_id] # NoRow
        psn_id == profile_data.psn_id
        avatar_url == IF "avatar_url" \in DOMAIN profile_data
                      THEN profile_data.avatar_url ELSE NULL
        birthday == IF "birthday" \in DOMAIN profile_data
                       /\ Strip(profile_data.birthday) # <<>>
                    THEN profile_data.birthday ELSE NULL
        row == [real_name |-> profile_data.real_name,
                psn_id |-> psn_id,
                platforms |-> join_comma_separated_list(profile_data.platforms),
                modes |-> join_comma_separated_list(profile_data.modes),
                goals |-> join_comma_separated_list(profile_data.goals),
                difficulties |-> join_comma_separated_list(profile_data.difficulties),
                avatar_url |-> IF user_exists /\ avatar_url = NULL
                               THEN users[user_id].avatar_url
                               ELSE IF avatar_url = NULL THEN <<>> ELSE avatar_url]
    IN  [ok |-> TRUE,
         users |-> [users EXCEPT ![user_id] = row],
         mastery |->
            IF mastery[user_id] = NoRow
            THEN [mastery EXCEPT ![user_id] =
                     [c \in CategorySet |-> 0] @@ [psn_id |-> psn_id]]
            ELSE IF user_exists
            THEN [mastery EXCEPT ![user_id].psn_id = psn_id]
            ELSE mastery,
         trophies |->
            IF trophies[user_id] = NoRow
            THEN [trophies EXCEPT ![user_id] =
                     [psn_id |-> psn_id, trophies |-> <<>>, active_trophies |-> <<>>]]
            ELSE IF user_exists
            THEN [trophies EXCEPT ![user_id].psn_id = psn_id]
            ELSE trophies,
         birthdays |->
            IF birthdays[user_id] = NoRow
            THEN [birthdays EXCEPT ![user_id] = BirthdayRow(psn_id, birthday)]
            ELSE IF user_exists
            THEN [birthdays EXCEPT ![user_id] = BirthdayRow(psn_id, birthday)]
            ELSE birthdays,
         notifications |->
            IF notifications[user_id] = NoRow
            THEN [notifications EXCEPT ![user_id] = NotificationRow(psn_id)]
            ELSE IF user_exists
            THEN [notifications EXCEPT ![user_id].psn_id = psn_id]
            ELSE notifications,
         recent_events |->
            IF user_exists
            THEN [i \in DOMAIN recent_events |->
                     IF recent_events[i].user_id = user_id
                     THEN [recent_events[i] EXCEPT !.psn_id = psn_id]
                     ELSE recent_events[i]]
            ELSE recent_events,
         builds |->
            IF user_exists
            THEN [b \in DOMAIN builds |->
                     IF builds[b] # NoRow /\ builds[b].user_id = user_id
                     THEN [builds[b] EXCEPT !.author = psn_id]
                     ELSE builds[b]]
            ELSE builds]

\* POST /api/profile.save
save_profile(x_telegram_init_data, real_name, psn_id, platforms, modes, goals, difficulties) ==
    LET auth == get_current_user(x_telegram_init_data)
        profile_data ==
            [real_name |-> Strip(real_name), psn_id |-> Strip(psn_id),
             platforms |-> platforms, modes |-> modes, goals |-> goals,
             difficulties |-> difficulties]
        saved == upsert_user(auth.user_id, profile_data)
        Rejected(status, detail) ==
            [resp |-> Response("profile.save", status, detail),
             users |-> users, mastery |-> mastery, trophies |-> trophies,
             birthdays |-> birthdays, notifications |-> notifications,
             recent_events |-> recent_events, builds |-> builds]
    IN  IF ~auth.ok THEN Rejected(401, auth.detail)
        ELSE IF Strip(real_name) = <<>> THEN Rejected(400, "real_name")
        ELSE IF ~validate_psn_format(psn_id) THEN Rejected(400, "psn format")
        ELSE IF ~saved.ok THEN Rejected(500, "save failed")
        ELSE [resp |-> Response("profile.save", 200, "ok"),
              users |-> saved.users, mastery |-> saved.mastery,
              trophies |-> saved.trophies, birthdays |-> saved.birthdays,
              notifications |-> saved.notifications,
              recent_events |-> saved.recent_events, builds |-> saved.builds]

SaveProfile(x_telegram_init_data, real_name, psn_id, platforms, modes, goals, difficulties) ==
    \E out \in {save_profile(x_telegram_init_data, real_name, psn_id, platforms, modes,
                             goals, difficulties)} :
        /\ resp' = out.resp
        /\ users' = out.users
        /\ mastery' = out.mastery
        /\ trophies' = out.trophies
        /\ birthdays' = out.birthdays
        /\ notifications' = out.notifications
        /\ recent_events' = out.recent_events
        /\ builds' = out.builds
        /\ nops' = nops + 1
        /\ UNCHANGED <<rotation_current_week, calls, build_reactions, comments, files, questVars,
                       genVars>>


-----------------------------------------------------------------------------
(* builds.create and comments.create (app.py) with create_build,          *)
(* update_build_photos and create_comment (db.py).                         *)

\* get_user_with_psn: the psn_id of the profile, 404 without a profile and
\* 400 when the profile has no psn_id.
get_user_with_psn(user_id) ==
    IF get_user(user_id) = NoRow THEN [ok |-> FALSE, status |-> 404, detail |-> "no profile"]
    ELSE IF get_user(user_id).psn_id \in {<<>>, NULL}
    THEN [ok |-> FALSE, status |-> 400, detail |-> "no psn_id"]
    ELSE [ok |-> TRUE, psn_id |-> get_user(user_id).psn_id]

\* cursor.lastrowid of an INSERT INTO builds: an id above every id of the
\* table (the least one for a plain rowid, any for AUTOINCREMENT).
LastRowIds(b) ==
    {n \in AnyBuildIds : \A m \in AnyBuildIds : b[m] # NoRow => m < n}

\* create_build: the row is inserted under build_id, the tags joined.
create_build(b, build_id, build_data) ==
    [b EXCEPT ![build_id] =
        [BuildRow(build_data.user_id, build_data.name, build_data.class,
                  join_comma_separated_list(build_data.tags), build_data.description,
                  build_data.photo_1, build_data.photo_2, build_data.is_public)
         EXCEPT !.author = build_data.author]]

\* update_build_photos
update_build_photos(b, build_id, photo_1_url, photo_2_url) ==
    IF b[build_id] = NoRow THEN b
    ELSE [b EXCEPT ![build_id].photo_1 = photo_1_url, ![build_id].photo_2 = photo_2_url]

\* POST /api/builds.create: the outcomes, one for each id the INSERT may
\* give.  A photo that Image.open cannot read makes the handler delete the
\* row and the directory again.
create_build_endpoint(x_telegram_init_data, name, class_name, tags, description, photo_1, photo_2) ==
    LET auth == get_current_user(x_telegram_init_data)
        profile == get_user_with_psn(auth.user_id)
        Rejected(status, detail) ==
            {[resp |-> Response("builds.create", status, detail),
              builds |-> builds, files |-> files]}
        build_data ==
            [user_id |-> auth.user_id, author |-> profile.psn_id, name |-> Strip(name),
             class |-> Strip(class_name), tags |-> parse_tags(tags),
             description |-> Strip(description), photo_1 |-> <<>>, photo_2 |-> <<>>,
             is_public |-> 0]
        Created(build_id) ==
            LET created == create_build(builds, build_id, build_data)
                photo_1_path == <<"builds", build_id, "photo_1.jpg">>
                photo_2_path == <<"builds", build_id, "photo_2.jpg">>
                files_1 == process_image_for_upload(files, photo_1_path)
                files_2 == process_image_for_upload(files_1, photo_2_path)
                Failed(f) ==
                    [resp |-> Response("builds.create", 500, "photos"),
                     builds |-> delete_build(created, build_id, auth.user_id).builds,
                     files |-> rmtree_build(f, build_id)]
            IN  IF photo_1 # "image" THEN Failed(files)
                ELSE IF photo_2 # "image" THEN Failed(files_1)
                ELSE [resp |-> ResponseWith("builds.create", 200, "ok",
                                            [build_id |-> build_id]),
                      builds |-> update_build_photos(created, build_id,
                                                     photo_1_path, photo_2_path),
                      files |-> files_2]
    IN  IF ~auth.ok THEN Rejected(401, auth.detail)
        ELSE IF ~profile.ok THEN Rejected(profile.status, profile.detail)
        ELSE IF Strip(name) = <<>> THEN Rejected(400, "name")
        ELSE IF Strip(class_name) = <<>> THEN Rejected(400, "class")
        ELSE {Created(build_id) : build_id \in LastRowIds(builds)}

CreateBuild(x_telegram_init_data, name, class_name, tags, description, photo_1, photo_2) ==
    \E out \in create_build_endpoint(x_telegram_init_data, name, class_name, tags,
                                     description, photo_1, photo_2) :
        /\ resp' = out.resp
        /\ builds' = out.builds
        /\ files' = out.files
        /\ nops' = nops + 1
        /\ UNCHANGED <<build_reactions, comments, siteFrame>>

COMMENT_MAX_LENGTH == 500

\* create_comment: None for a blank text; a text above the limit is cut;
\* the stripped text is inserted.
create_comment(c, build_id, user_id, comment_text) ==
    LET cut == IF Len(comment_text) > COMMENT_MAX_LENGTH
               THEN SubSeq(comment_text, 1, COMMENT_MAX_LENGTH) ELSE comment_text
    IN  IF Strip(comment_text) = <<>> THEN [ok |-> FALSE, comments |-> c]
        ELSE [ok |-> TRUE,
              comments |-> Append(c, [build_id |-> build_id, user_id |-> user_id,
                                      comment_text |-> Strip(cut)])]

\* comments.create without the test of the length.
create_comment_endpoint_any_length(x_telegram_init_data, build_id, comment_text) ==
    LET auth == get_current_user(x_telegram_init_data)
        text == Strip(comment_text)
        created == create_comment(comments, build_id, auth.user_id, text)
        Rejected(status, detail) ==
            [resp |-> Response("comments.create", status, detail), comments |-> comments]
    IN  IF ~auth.ok THEN Rejected(401, auth.detail)
        ELSE IF get_build(builds, build_id) = NoRow THEN Rejected(404, "build not found")
        ELSE IF Len(text) = 0 THEN Rejected(400, "empty comment")
        ELSE IF ~created.ok THEN Rejected(500, "create failed")
        ELSE [resp |-> Response("comments.create", 200, "ok"),
              comments |-> created.comments]

\* POST /api/comments.create
create_comment_endpoint(x_telegram_init_data, build_id, comment_text) ==
    LET auth == get_current_user(x_telegram_init_data)
        text == Strip(comment_text)
        created == create_comment(comments, build_id, auth.user_id, text)
        Rejected(status, detail) ==
            [resp |-> Response("comments.create", status, detail), comments |-> comments]
    IN  IF ~auth.ok THEN Rejected(401, auth.detail)
        ELSE IF get_build(builds, build_id) = NoRow THEN Rejected(404, "build not found")
        ELSE IF Len(text) = 0 THEN Rejected(400, "empty comment")
        ELSE IF Len(text) > COMMENT_MAX_LENGTH THEN Rejected(400, "comment too long")
        ELSE IF ~created.ok THEN Rejected(500, "create failed")
        ELSE [resp |-> Response("comments.create", 200, "ok"),
              comments |-> created.comments]

CreateComment(x_telegram_init_data, build_id, comment_text) ==
    \E out \in {create_comment_endpoint(x_telegram_init_data, build_id, comment_text)} :
        /\ resp' = out.resp
        /\ comments' = out.comments
        /\ nops' = nops + 1
        /\ UNCHANGED <<builds, build_reactions, files, siteFrame>>


-----------------------------------------------------------------------------
(* trophies.updateActive, trophy.approve and DELETE /api/users/{user_id}  *)
(* (app.py) with update_active_trophies and delete_user_all_data (db.py). *)

ACTIVE_TROPHIES_MAX == 8

\* list[:n]
FirstN(list, n) == IF Len(list) > n THEN SubSeq(list, 1, n) ELSE list

\* get_trophies: the two lists, empty without a row.
get_trophies(t, user_id) ==
    IF t[user_id] = NoRow THEN [trophies |-> <<>>, active_trophies |-> <<>>]
    ELSE [trophies |-> t[user_id].trophies, active_trophies |-> t[user_id].active_trophies]

\* update_active_trophies that stores the keys as they were sent.
update_active_trophies_unfiltered(t, user_id, active_trophies_list) ==
    LET t1 == IF t[user_id] = NoRow
              THEN init_user_trophies(t, user_id,
                       IF get_user(user_id) = NoRow THEN <<>> ELSE get_user(user_id).psn_id)
              ELSE t
    IN  [ok |-> TRUE,
         trophies |-> [t1 EXCEPT ![user_id].active_trophies =
                          FirstN(SortKeys(active_trophies_list), ACTIVE_TROPHIES_MAX)]]

\* update_active_trophies: the list is cut to eight, the keys the user does
\* not hold are dropped, the rest is sorted and written; the row is created
\* when it is missing.
update_active_trophies(t, user_id, active_trophies_list) ==
    LET all_trophies == SeqToSet(get_trophies(t, user_id).trophies)
        valid_active == SelectSeq(FirstN(active_trophies_list, ACTIVE_TROPHIES_MAX),
                                  LAMBDA k : k \in all_trophies)
        t1 == IF t[user_id] = NoRow
              THEN init_user_trophies(t, user_id,
                       IF get_user(user_id) = NoRow THEN <<>> ELSE get_user(user_id).psn_id)
              ELSE t
    IN  [ok |-> TRUE,
         trophies |-> [t1 EXCEPT ![user_id].active_trophies =
                          FirstN(SortKeys(valid_active), ACTIVE_TROPHIES_MAX)]]

\* POST /api/trophies.updateActive
update_active_trophies_endpoint(x_telegram_init_data, active_trophies) ==
    LET auth == get_current_user(x_telegram_init_data)
        done == update_active_trophies(trophies, auth.user_id, active_trophies)
        Rejected(status, detail) ==
            [resp |-> Response("trophies.updateActive", status, detail),
             trophies |-> trophies]
    IN  IF ~auth.ok THEN Rejected(401, auth.detail)
        ELSE IF Len(active_trophies) > ACTIVE_TROPHIES_MAX
        THEN Rejected(400, "more than eight")
        ELSE IF ~done.ok THEN Rejected(500, "update failed")
        ELSE [resp |-> Response("trophies.updateActive", 200, "ok"),
              trophies |-> done.trophies]

UpdateActiveTrophies(x_telegram_init_data, active_trophies) ==
    \E out \in {update_active_trophies_endpoint(x_telegram_init_data, active_trophies)} :
        /\ resp' = out.resp
        /\ trophies' = out.trophies
        /\ nops' = nops + 1
        /\ UNCHANGED <<users, mastery, recent_events, sideTables, questVars, farVars>>

\* trophies.json as load_trophy_config returns it.
TrophyConfig == [trophies |-> <<[key |-> "bonus"], [key |-> "solo"]>>]

\* find_trophy_by_key
find_trophy_by_key(config, trophy_key) ==
    IF \E i \in DOMAIN config.trophies : config.trophies[i].key = trophy_key
    THEN config.trophies[CHOOSE i \in DOMAIN config.trophies :
                             config.trophies[i].key = trophy_key]
    ELSE NoRow

\* POST /api/trophy.approve.  The write of add_trophy is committed when
\* get_user is called, so the 404 of a user without profile leaves it.
approve_trophy_application(user_id, trophy_key, authorization) ==
    LET trophy == find_trophy_by_key(TrophyConfig, trophy_key)
        user_trophies == SeqToSet(get_trophies(trophies, user_id).trophies)
        Rejected(status, detail) ==
            [resp |-> Response("trophy.approve", status, detail), trophies |-> trophies]
    IN  IF ~verify_bot_authorization(authorization) THEN Rejected(401, "unauthorized")
        ELSE IF trophy = NoRow THEN Rejected(400, "trophy not in config")
        ELSE IF trophy_key \in user_trophies THEN Rejected(400, "already held")
        ELSE IF get_user(user_id) = NoRow
        THEN [resp |-> Response("trophy.approve", 404, "profile not found"),
              trophies |-> add_trophy(trophies, user_id, trophy_key)]
        ELSE [resp |-> Response("trophy.approve", 200, "ok"),
              trophies |-> add_trophy(trophies, user_id, trophy_key)]

TrophyApprove(user_id, trophy_key, authorization) ==
    \E out \in {approve_trophy_application(user_id, trophy_key, authorization)} :
        /\ resp' = out.resp
        /\ trophies' = out.trophies
        /\ nops' = nops + 1
        /\ UNCHANGED <<users, mastery, recent_events, sideTables, questVars, farVars>>


\* shutil.rmtree of the directory of a user.
rmtree_user(f, user_id) ==
    [p \in Paths |-> IF p[1] = "users" /\ p[2] = user_id THEN "absent" ELSE f[p]]

\* The directories of the builds of a set are removed.
RECURSIVE rmtree_builds(_, _)
rmtree_builds(f, build_ids) ==
    IF build_ids = {} THEN f
    ELSE LET b == CHOOSE x \in build_ids : TRUE
         IN  rmtree_builds(rmtree_build(f, b), build_ids \ {b})

\* delete_user_all_data: the comments and reactions under the user's
\* private builds, the user's own reactions and comments, the private
\* builds with their directories, the rows of mastery, trophies, birthdays
\* and users and the directory of the user are deleted.  Public builds stay.
delete_user_all_data(user_id) ==
    LET private_build_ids ==
            {b \in AnyBuildIds : builds[b] # NoRow /\ builds[b].user_id = user_id
                                  /\ builds[b].is_public = 0}
    IN  [ok |-> TRUE,
         comments |-> SelectSeq(comments,
                          LAMBDA c : c.build_id \notin private_build_ids
                                     /\ c.user_id # user_id),
         build_reactions |->
            [b \in AnyBuildIds |-> [u \in AnyUserIds |->
                IF b \in private_build_ids \/ u = user_id
                THEN [like |-> 0, dislike |-> 0]
                ELSE build_reactions[b][u]]],
         builds |-> [b \in AnyBuildIds |->
                        IF b \in private_build_ids THEN NoRow ELSE builds[b]],
         files |-> rmtree_user(rmtree_builds(files, private_build_ids), user_id),
         mastery |-> [mastery EXCEPT ![user_id] = NoRow],
         trophies |-> [trophies EXCEPT ![user_id] = NoRow],
         birthdays |-> [birthdays EXCEPT ![user_id] = NoRow],
         users |-> [users EXCEPT ![user_id] = NoRow]]

\* DELETE /api/users/{user_id}
delete_user_data_endpoint(user_id, authorization) ==
    LET done == delete_user_all_data(user_id)
    IN  IF ~verify_bot_authorization(authorization)
        THEN [resp |-> Response("users.delete", 401, "unauthorized"),
              comments |-> comments, build_reactions |-> build_reactions,
              builds |-> builds, files |-> files, mastery |-> mastery,
              trophies |-> trophies, birthdays |-> birthdays, users |-> users]
        ELSE IF ~done.ok
        THEN [resp |-> Response("users.delete", 404, "user not found"),
              comments |-> comments, build_reactions |-> build_reactions,
              builds |-> builds, files |-> files, mastery |-> mastery,
              trophies |-> trophies, birthdays |-> birthdays, users |-> users]
        ELSE [resp |-> ResponseWith("users.delete", 200, "ok", [user_id |-> user_id]),
              comments |-> done.comments, build_reactions |-> done.build_reactions,
              builds |-> done.builds, files |-> done.files, mastery |-> done.mastery,
              trophies |-> done.trophies, birthdays |-> done.birthdays,
              users |-> done.users]

DeleteUserData(user_id, authorization) ==
    \E out \in {delete_user_data_endpoint(user_id, authorization)} :
        /\ resp' = out.resp
        /\ comments' = out.comments
        /\ build_reactions' = out.build_reactions
        /\ builds' = out.builds
        /\ files' = out.files
        /\ mastery' = out.mastery
        /\ trophies' = out.trophies
        /\ birthdays' = out.birthdays
        /\ users' = out.users
        /\ nops' = nops + 1
        /\ UNCHANGED <<recent_events, notifications, rotation_current_week, calls, questVars,
                       genVars>>


\* POST /api/trophy.reject: no table is written; the user is notified.
reject_trophy_application(user_id, trophy_key, authorization) ==
    IF ~verify_bot_authorization(authorization)
    THEN [resp |-> Response("trophy.reject", 401, "unauthorized")]
    ELSE IF get_user(user_id) = NoRow
    THEN [resp |-> Response("trophy.reject", 404, "profile not found")]
    ELSE [resp |-> Response("trophy.reject", 200, "ok")]

\* POST /api/mastery.reject: no table is written; the user is notified.
reject_mastery_application(user_id, category_key, next_level, authorization) ==
    IF ~verify_bot_authorization(authorization)
    THEN [resp |-> Response("mastery.reject", 401, "unauthorized")]
    ELSE IF get_user(user_id) = NoRow
    THEN [resp |-> Response("mastery.reject", 404, "profile not found")]
    ELSE [resp |-> Response("mastery.reject", 200, "ok")]

allTables ==
    <<users, mastery, trophies, recent_events, sideTables, questVars, genVars, siteVars>>

TrophyReject(user_id, trophy_key, authorization) ==
    \E out \in {reject_trophy_application(user_id, trophy_key, authorization)} :
        /\ resp' = out.resp
        /\ nops' = nops + 1
        /\ UNCHANGED allTables

MasteryReject(user_id, category_key, next_level, authorization) ==
    \E out \in {reject_mastery_application(user_id, category_key, next_level,
                                           authorization)} :
        /\ resp' = out.resp
        /\ nops' = nops + 1
        /\ UNCHANGED allTables

-----------------------------------------------------------------------------
(* SpecAuth: every endpoint of app.py that writes a table or a file, and   *)
(* the two reject callbacks, called with and without credentials on a      *)
(* database with profiles, builds, comments, reactions and trophies.       *)

MaxAuthOps == 1         \* requests handled in SpecAuth

\* The trophies rows at the start: user 1 holds a trophy and shows it.
SeedTrophies ==
    [u \in AnyUserIds |->
        IF u = 1 THEN [psn_id |-> SeedPsn, trophies |-> <<"bonus">>,
                       active_trophies |-> <<"bonus">>]
        ELSE IF u \in UserIds
        THEN [psn_id |-> SeedPsn, trophies |-> <<>>, active_trophies |-> <<>>]
        ELSE NoRow]

InitAuth ==
    /\ InitProfiles
    /\ trophies = SeedTrophies
    /\ InitNoQuests
    /\ InitNoGen
    /\ mastery = [u \in AnyUserIds |->
                    IF u = 1 THEN SeedMasteryRow
                    ELSE IF u \in UserIds
                    THEN [c \in CategorySet |-> 0] @@ [psn_id |-> SeedPsn]
                    ELSE NoRow]
    /\ builds = [b \in AnyBuildIds |-> SeedBuild(b)]
    /\ build_reactions =
            [b \in AnyBuildIds |-> [u \in AnyUserIds |->
                IF b = 1 /\ u = 2 THEN [like |-> 1, dislike |-> 0]
                ELSE [like |-> 0, dislike |-> 0]]]
    /\ comments = <<[build_id |-> 1, user_id |-> 2, comment_text |-> <<"h", "i">>],
                    [build_id |-> 2, user_id |-> 1, comment_text |-> <<"o", "k">>]>>
    /\ files = SeedFiles


\* The Authorization headers of the requests of the bot and of others.
BotHeaders ==
    MasteryHeaders \cup {Header(BOT_TOKEN), Header(<<>>), Header(<<"Bearer ">>)}

\* A text of n characters.
TextOf(n) == [i \in 1..n |-> "x"]

\* The requests for profile.save: real_name, psn_id, platforms, modes,
\* goals, difficulties.  A profile, one with a blank name, one with a PSN
\* name of two characters and one with a PSN name ending in a line feed.
ProfileRequests ==
    LET full == <<<<" ", "N">>, <<"a", "b", "_", "1">>, <<<<"ps5">>, <<"ps4">>>>,
                  <<<<"story">>>>, <<>>, <<>>>>
    IN  {full, [full EXCEPT ![1] = <<" ">>], [full EXCEPT ![2] = <<"a", "b">>],
         [full EXCEPT ![2] = <<"a", "b", "c", "LF">>]}

\* The requests for builds.create: both photos, a blank name, a second
\* photo that cannot be opened.
CreateRequests ==
    LET full == <<<<"new">>, <<"ronin">>, <<"a", ",", "b">>, <<"text">>, "image", "image">>
    IN  {full, [full EXCEPT ![1] = <<" ">>], [full EXCEPT ![6] = "corrupt"]}

\* The texts of comments.create: blank, short, at the limit and above it.
CommentTexts ==
    {<<" ">>, <<"h", "i", " ">>, TextOf(COMMENT_MAX_LENGTH), TextOf(COMMENT_MAX_LENGTH + 1)}

\* The lists of trophies.updateActive: empty, held and not held keys, and
\* one key more than the maximum.
ActiveLists ==
    {<<>>, <<"solo", "bonus">>, [i \in 1..(ACTIVE_TROPHIES_MAX + 1) |-> "bonus"]}

ReqTrophyKeys == {"bonus", "solo", "ghost"}

\* The next_level of the callbacks: the level after 0 and the level after 1.
AuthLevels == {1, 2}

NextAuth ==
    /\ nops < MaxAuthOps
    /\ \/ \E h \in InitDataHeaders, r \in ProfileRequests :
            SaveProfile(h, r[1], r[2], r[3], r[4], r[5], r[6])
       \/ \E h \in InitDataHeaders, u \in AnyUserIds, a \in ReqAvatars :
            UploadAvatar(h, u, a)
       \/ \E h \in InitDataHeaders, r \in CreateRequests :
            CreateBuild(h, r[1], r[2], r[3], r[4], r[5], r[6])
       \/ \E h \in InitDataHeaders, b \in AnyBuildIds, v \in ReqVisibility :
            TogglePublish(h, b, v)
       \/ \E h \in InitDataHeaders, b \in AnyBuildIds : DeleteBuild(h, b)
       \/ \E h \in InitDataHeaders, b \in AnyBuildIds, r \in UpdateRequests :
            UpdateBuild(h, b, r[1], r[2], r[3], r[4], r[5], r[6])
       \/ \E h \in InitDataHeaders, b \in AnyBuildIds, c \in CommentTexts :
            CreateComment(h, b, c)
       \/ \E h \in InitDataHeaders, b \in AnyBuildIds, t \in ReqReactionTypes :
            ToggleReaction(h, b, t)
       \/ \E h \in InitDataHeaders, l \in ActiveLists : UpdateActiveTrophies(h, l)
       \/ \E a \in BotHeaders, u \in AnyUserIds, c \in ReqCategories, n \in AuthLevels :
            MasteryApprove(u, c, n, a)
       \/ \E a \in BotHeaders, u \in AnyUserIds, k \in ReqTrophyKeys : TrophyApprove(u, k, a)
       \/ \E a \in BotHeaders, u \in AnyUserIds, k \in ReqTrophyKeys : TrophyReject(u, k, a)
       \/ \E a \in BotHeaders, u \in AnyUserIds, c \in ReqCategories, n \in AuthLevels :
            MasteryReject(u, c, n, a)
       \/ \E a \in BotHeaders, u \in AnyUserIds : DeleteUserData(u, a)

SpecAuth == InitAuth /\ [][NextAuth]_vars


\* The X-Telegram-Init-Data header carries a hash made with the bot token
\* and names a user.
ValidInitData(h) ==
    /\ h.present
    /\ \E i \in 1..Len(h.value) : h.value[i].k = "hash" /\ h.value[i].v = BOT_TOKEN
    /\ \E i \in 1..Len(h.value) : h.value[i].k = "user"

\* The Authorization header carries the bot token.
HoldsBotToken(a) ==
    a.present /\ \E i \in 1..Len(a.value) : <<a.value[i]>> = BOT_TOKEN

\* The tables and files by the names the outcomes of the handlers use.
Persisted ==
    [users |-> users, mastery |-> mastery, trophies |-> trophies,
     recent_events |-> recent_events, birthdays |-> birthdays,
     notifications |-> notifications, builds |-> builds,
     build_reactions |-> build_reactions, comments |-> comments, files |-> files]

\* The outcome is a 401 that leaves every table and file as it is.
Refused401(out) ==
    /\ out.resp.status = 401
    /\ \A f \in DOMAIN out \ {"resp"} : out[f] = Persisted[f]

\* C9: in every reachable state, every endpoint that writes profile, build,
\* comment, reaction, mastery or trophy data answers a request whose
\* X-Telegram-Init-Data header is not valid (user endpoints) or whose
\* Authorization header does not hold the bot token (approve, reject and
\* delete-user callbacks) with 401 and leaves every table and file unchanged.
C9_NoCredentialsNoChange ==
    /\ \A h \in InitDataHeaders : ~ValidInitData(h) =>
        /\ \A r \in ProfileRequests :
             Refused401(save_profile(h, r[1], r[2], r[3], r[4], r[5], r[6]))
        /\ \A u \in AnyUserIds, a \in ReqAvatars : Refused401(upload_avatar(h, u, a))
        /\ \A r \in CreateRequests :
             \A out \in create_build_endpoint(h, r[1], r[2], r[3], r[4], r[5], r[6]) :
                Refused401(out)
        /\ \A b \in AnyBuildIds, v \in ReqVisibility :
             Refused401(toggle_build_publish(h, b, v))
        /\ \A b \in AnyBuildIds : Refused401(delete_build_endpoint(h, b))
        /\ \A b \in AnyBuildIds, r \in UpdateRequests :
             Refused401(update_build_endpoint(h, b, r[1], r[2], r[3], r[4], r[5], r[6]))
        /\ \A b \in AnyBuildIds, c \in CommentTexts :
             Refused401(create_comment_endpoint(h, b, c))
        /\ \A b \in AnyBuildIds, t \in ReqReactionTypes :
             \A out \in toggle_reaction_endpoint(h, b, t) : Refused401(out)
        /\ \A l \in ActiveLists : Refused401(update_active_trophies_endpoint(h, l))
    /\ \A a \in BotHeaders : ~HoldsBotToken(a) =>
        /\ \A u \in AnyUserIds, c \in ReqCategories, n \in AuthLevels :
             /\ Refused401(approve_mastery_application(u, c, n, a))
             /\ Refused401(reject_mastery_application(u, c, n, a))
        /\ \A u \in AnyUserIds, k \in ReqTrophyKeys :
             /\ Refused401(approve_trophy_application(u, k, a))
             /\ Refused401(reject_trophy_application(u, k, a))
        /\ \A u \in AnyUserIds : Refused401(delete_user_data_endpoint(u, a))

\* C9 witness: a delete-user callback without the bot token has been
\* answered 401 and every profile of the start is still there.
C9_Witness ==
    /\ resp.op = "users.delete"
    /\ resp.status = 401
    /\ nops > 0
    /\ \A u \in UserIds : users[u] # NoRow /\ mastery[u] # NoRow /\ trophies[u] # NoRow


-----------------------------------------------------------------------------
(* The reads of builds: builds.getPublic, builds.search, builds.get and    *)
(* builds.getUserBuilds (app.py) with get_public_builds, search_builds and *)
(* get_user_builds (db.py).  created_at is not a column of the model: the  *)
(* ids of the rows of builds grow with it, so the newest row has the       *)
(* greatest id.                                                            *)

\* parse_comma_separated_list
parse_comma_separated_list(text) ==
    IF text = <<>> THEN <<>> ELSE StripItems(SplitComma(text))

\* ORDER BY created_at DESC over the rows of a set of ids.
RECURSIVE NewestFirst(_)
NewestFirst(ids) ==
    IF ids = {} THEN <<>>
    ELSE LET m == CHOOSE x \in ids : \A y \in ids : y <= x
         IN  <<m>> \o NewestFirst(ids \ {m})

\* _build_dict_from_row without the statistics.
build_dict_from_row(b, build_id) ==
    [build_id |-> build_id, user_id |-> b[build_id].user_id,
     author |-> b[build_id].author, name |-> b[build_id].name,
     class |-> b[build_id].class,
     tags |-> parse_comma_separated_list(b[build_id].tags),
     description |-> b[build_id].description, photo_1 |-> b[build_id].photo_1,
     photo_2 |-> b[build_id].photo_2, is_public |-> b[build_id].is_public]

\* _build_dict_from_row with comments_count, likes_count and dislikes_count.
build_dict_with_stats(b, build_id) ==
    build_dict_from_row(b, build_id)
    @@ [comments_count |->
            Len(SelectSeq(comments, LAMBDA c : c.build_id = build_id)),
        likes_count |-> get_reaction_stats(build_reactions, build_id)[1],
        dislikes_count |-> get_reaction_stats(build_reactions, build_id)[2]]

\* A WHERE clause that leaves is_public out.
IsPublicRowAny(row) == TRUE

\* WHERE is_public = 1
IsPublicRow(row) == row.is_public = 1

\* get_user_builds: every build of the user, newest first.
get_user_builds(b, user_id) ==
    LET ids == NewestFirst({i \in AnyBuildIds : b[i] # NoRow /\ b[i].user_id = user_id})
    IN  [k \in 1..Len(ids) |-> build_dict_with_stats(b, ids[k])]

\* get_public_builds: the builds WHERE is_public = 1, newest first.
get_public_builds(b) ==
    LET ids == NewestFirst({i \in AnyBuildIds : b[i] # NoRow /\ IsPublicRow(b[i])})
    IN  [k \in 1..Len(ids) |-> build_dict_with_stats(b, ids[k])]


\* The decimal digits.
DigitValue ==
    [d \in {"0", "1", "2", "3", "4", "5", "6", "7", "8", "9"} |->
        CASE d = "0" -> 0 [] d = "1" -> 1 [] d = "2" -> 2 [] d = "3" -> 3 [] d = "4" -> 4
          [] d = "5" -> 5 [] d = "6" -> 6 [] d = "7" -> 7 [] d = "8" -> 8 [] d = "9" -> 9]

\* int(text) of a text of digits.
RECURSIVE IntOf(_)
IntOf(text) ==
    IF text = <<>> THEN 0
    ELSE 10 * IntOf(SubSeq(text, 1, Len(text) - 1)) + DigitValue[text[Len(text)]]

\* int(query.strip()) raises ValueError unless the text is a number.
IsInt(text) == text # <<>> /\ \A i \in 1..Len(text) : text[i] \in DOMAIN DigitValue

\* str.lower(): the parts of the texts of the model that hold capitals.
Lower(text) ==
    [i \in 1..Len(text) |->
        CASE text[i] = "New" -> "new" [] text[i] = "N" -> "n" [] OTHER -> text[i]]

\* needle in hay
Contains(hay, needle) ==
    \E i \in 0..(Len(hay) - Len(needle)) : SubSeq(hay, i + 1, i + Len(needle)) = needle

\* ', '.join(items)
RECURSIVE JoinCommaSpace(_)
JoinCommaSpace(items) ==
    IF items = <<>> THEN <<>>
    ELSE IF Len(items) = 1 THEN items[1]
    ELSE items[1] \o <<",", " ">> \o JoinCommaSpace(Tail(items))

\* The priority of a build for a text query, 0 when nothing matches.
Priority(build, query_lower) ==
    IF Contains(Lower(build.name), query_lower) THEN 1
    ELSE IF Contains(Lower(build.class), query_lower) THEN 2
    ELSE IF Contains(Lower(JoinCommaSpace(build.tags)), query_lower) THEN 3
    ELSE IF Contains(Lower(build.author), query_lower) THEN 4
    ELSE IF Contains(Lower(build.description), query_lower) THEN 5
    ELSE 0

\* The ids of the sets of a sequence, each set newest first.
RECURSIVE ByPriority(_)
ByPriority(sets) ==
    IF sets = <<>> THEN <<>> ELSE NewestFirst(Head(sets)) \o ByPriority(Tail(sets))

\* search_builds: a number is looked up as a build_id among the public
\* builds; a text is looked up in the public builds, ordered by the field
\* that matches and by age; at most limit builds are returned.
search_builds(b, query, limit) ==
    LET public == {i \in AnyBuildIds : b[i] # NoRow /\ IsPublicRow(b[i])}
        query_lower == Strip(Lower(query))
        Matching(p) == {i \in public : Priority(build_dict_from_row(b, i), query_lower) = p}
        ids == IF IsInt(Strip(query))
               THEN NewestFirst({i \in public : i = IntOf(Strip(query))})
               ELSE ByPriority(<<Matching(1), Matching(2), Matching(3), Matching(4),
                                 Matching(5)>>)
    IN  [k \in 1..Len(FirstN(ids, limit)) |-> build_dict_from_row(b, ids[k])]

\* GET /api/builds.getPublic
get_public_builds_endpoint ==
    [resp |-> ResponseWith("builds.getPublic", 200, "ok", get_public_builds(builds))]

\* GET /api/builds.search
search_builds_endpoint(query, limit) ==
    [resp |-> ResponseWith("builds.search", 200, "ok", search_builds(builds, query, limit))]

\* GET /api/builds.get/{build_id}: 403 for a build that is not published.
get_build_by_id_endpoint(build_id) ==
    IF get_build(builds, build_id) = NoRow
    THEN [resp |-> Response("builds.get", 404, "build not found")]
    ELSE IF get_build(builds, build_id).is_public = 0
    THEN [resp |-> Response("builds.get", 403, "not published")]
    ELSE [resp |-> ResponseWith("builds.get", 200, "ok",
                                <<build_dict_from_row(builds, build_id)>>)]

\* GET /api/builds.getUserBuilds: the builds of the user with is_public 1.
get_user_builds_endpoint(x_telegram_init_data, target_user_id) ==
    LET auth == get_current_user(x_telegram_init_data)
    IN  IF ~auth.ok THEN [resp |-> Response("builds.getUserBuilds", 401, auth.detail)]
        ELSE [resp |-> ResponseWith("builds.getUserBuilds", 200, "ok",
                  SelectSeq(get_user_builds(builds, target_user_id),
                            LAMBDA build : build.is_public = 1))]

\* A read is answered: no table changes.
Read(out) ==
    /\ resp' = out.resp
    /\ nops' = nops + 1
    /\ UNCHANGED allTables

GetPublicBuilds == Read(get_public_builds_endpoint)

SearchBuilds(query, limit) == Read(search_builds_endpoint(query, limit))

GetBuildById(build_id) == Read(get_build_by_id_endpoint(build_id))

GetUserBuilds(x_telegram_init_data, target_user_id) ==
    Read(get_user_builds_endpoint(x_telegram_init_data, target_user_id))


-----------------------------------------------------------------------------
(* SpecPrivacy: builds are created, updated, published, unpublished and    *)
(* deleted by signed users, and read by anyone.                            *)

MaxPrivacyOps == 2      \* requests handled in SpecPrivacy

\* The queries of builds.search: empty, a name, a name in capitals, an
\* author, a tag, a class, the ids of builds, and a text of no build.
SearchQueries ==
    {<<>>, <<"new">>, <<"New">>, <<"name">>, SeedPsn, <<"tag">>, <<"ronin">>,
     <<"1">>, <<" ", "2">>, <<"3">>, <<"zzz">>}

SearchLimits == {0, 1, 10}

NextPrivacy ==
    /\ nops < MaxPrivacyOps
    /\ \/ \E h \in SignedHeaders, r \in CreateRequests :
            CreateBuild(h, r[1], r[2], r[3], r[4], r[5], r[6])
       \/ \E h \in SignedHeaders, b \in AnyBuildIds, r \in UpdateRequests :
            UpdateBuild(h, b, r[1], r[2], r[3], r[4], r[5], r[6])
       \/ \E h \in SignedHeaders, b \in AnyBuildIds, v \in ReqVisibility :
            TogglePublish(h, b, v)
       \/ \E h \in SignedHeaders, b \in AnyBuildIds : DeleteBuild(h, b)
       \/ GetPublicBuilds
       \/ \E q \in {<<>>, <<"1">>}, l \in {1} : SearchBuilds(q, l)
       \/ \E b \in AnyBuildIds : GetBuildById(b)
       \/ \E h \in {NoHeader, Header(InitDataOf(1, BOT_TOKEN))}, u \in UserIds :
            GetUserBuilds(h, u)

SpecPrivacy == InitBuilds /\ [][NextPrivacy]_vars

\* The ids of the builds of a list of results.
ListedIds(list) == {list[k].build_id : k \in DOMAIN list}

\* C11: in every reachable state, a build whose is_public is 0 is in no
\* result of builds.getPublic, of builds.search (for every query and limit)
\* or of builds.getUserBuilds (for every caller and target), and builds.get
\* answers 403 for it.
C11_PrivateBuildNeverListed ==
    \A b \in AnyBuildIds :
        (builds[b] # NoRow /\ builds[b].is_public = 0) =>
            /\ b \notin ListedIds(get_public_builds_endpoint.resp.body)
            /\ \A q \in SearchQueries, l \in SearchLimits :
                 b \notin ListedIds(search_builds_endpoint(q, l).resp.body)
            /\ \A h \in InitDataHeaders, u \in AnyUserIds :
                 LET out == get_user_builds_endpoint(h, u)
                 IN  out.resp.status = 200 => b \notin ListedIds(out.resp.body)
            /\ get_build_by_id_endpoint(b).resp.status = 403

\* C11 witness: build 1, public at the start, has been unpublished, and a
\* search has been answered with build 1 private.
C11_Witness ==
    /\ builds[1] # NoRow
    /\ builds[1].is_public = 0
    /\ resp.op = "builds.search"
    /\ resp.status = 200


-----------------------------------------------------------------------------
(* SpecDeleteUser: users comment, react and publish, and the bot deletes   *)
(* the data of users who left the group.                                   *)

MaxDeleteOps == 2       \* requests handled in SpecDeleteUser

NextDeleteUser ==
    /\ nops < MaxDeleteOps
    /\ \/ \E h \in SignedHeaders, b \in BuildIds, c \in {<<"h", "i", " ">>} :
            CreateComment(h, b, c)
       \/ \E h \in SignedHeaders, b \in BuildIds, t \in {"like", "dislike"} :
            ToggleReaction(h, b, t)
       \/ \E h \in SignedHeaders, b \in BuildIds, v \in {0, 1} : TogglePublish(h, b, v)
       \/ \E a \in MasteryHeaders, u \in AnyUserIds : DeleteUserData(u, a)

SpecDeleteUser == InitAuth /\ [][NextDeleteUser]_vars

\* The comments of a table that are attached to build b, in order.
CommentsOf(c, b) == SelectSeq(c, LAMBDA row : row.build_id = b)

\* C12: in every reachable state and for every user u, delete_user_all_data(u)
\* leaves every build of u with is_public = 1 in place together with every
\* comment and every reaction attached to it, and removes every build of u
\* with is_public = 0 together with every comment and reaction attached to it.
C12_PublicBuildsKeptWithCommentsAndReactions ==
    \A u \in AnyUserIds :
        LET out == delete_user_all_data(u)
        IN  \A b \in AnyBuildIds :
                (builds[b] # NoRow /\ builds[b].user_id = u) =>
                    IF builds[b].is_public = 1
                    THEN /\ out.builds[b] = builds[b]
                         /\ CommentsOf(out.comments, b) = CommentsOf(comments, b)
                         /\ out.build_reactions[b] = build_reactions[b]
                    ELSE /\ out.builds[b] = NoRow
                         /\ CommentsOf(out.comments, b) = <<>>
                         /\ \A v \in AnyUserIds :
                              out.build_reactions[b][v] = [like |-> 0, dislike |-> 0]


\* C13: in every state that follows a successful delete of user u, no row
\* keyed by u remains in users, mastery, trophies, birthdays, notifications,
\* quests_done, recent_events, comments or build_reactions, and the only
\* builds of u that remain are public ones.
C13_DeletedUserLeavesNoRows ==
    (resp.op = "users.delete" /\ resp.status = 200) =>
        LET u == resp.body.user_id
        IN  /\ users[u] = NoRow
            /\ mastery[u] = NoRow
            /\ trophies[u] = NoRow
            /\ birthdays[u] = NoRow
            /\ notifications[u] = NoRow
            /\ quests_done[u] = NoRow
            /\ \A i \in 1..Len(recent_events) : recent_events[i].user_id # u
            /\ \A i \in 1..Len(comments) : comments[i].user_id # u
            /\ \A b \in AnyBuildIds : build_reactions[b][u] = [like |-> 0, dislike |-> 0]
            /\ \A b \in AnyBuildIds :
                 (builds[b] # NoRow /\ builds[b].user_id = u) => builds[b].is_public = 1


-----------------------------------------------------------------------------
(* SpecTrophies: users choose their active trophies while the bot grants   *)
(* trophies, profiles are saved and users are deleted.                     *)

MaxTrophyOps == 2       \* requests handled in SpecTrophies

\* The lists of trophies.updateActive: empty, held and foreign keys, eight
\* keys and nine keys.
TrophyLists ==
    {<<>>, <<"solo", "bonus">>, <<"ghost", "bonus">>,
     [i \in 1..ACTIVE_TROPHIES_MAX |-> "bonus"],
     [i \in 1..(ACTIVE_TROPHIES_MAX + 1) |-> "bonus"]}

NextTrophies ==
    /\ nops < MaxTrophyOps
    /\ \/ \E h \in InitDataHeaders, l \in TrophyLists : UpdateActiveTrophies(h, l)
       \/ \E u \in AnyUserIds, k \in ReqTrophyKeys, a \in MasteryHeaders :
            TrophyApprove(u, k, a)
       \/ \E h \in SignedHeaders, r \in ProfileRequests :
            SaveProfile(h, r[1], r[2], r[3], r[4], r[5], r[6])
       \/ \E a \in MasteryHeaders, u \in AnyUserIds : DeleteUserData(u, a)

SpecTrophies == InitAuth /\ [][NextTrophies]_vars

\* C14: in every reachable state every trophies row has at most eight
\* active keys, all of them among the row's obtained trophies; and a
\* trophies.updateActive request with more than eight keys is refused, with
\* 400 when its init data is valid, and stores nothing.
C14_ActiveTrophiesAtMostEightAndHeld ==
    /\ \A u \in AnyUserIds :
         trophies[u] # NoRow =>
            /\ Len(trophies[u].active_trophies) <= 8
            /\ \A i \in 1..Len(trophies[u].active_trophies) :
                 \E j \in 1..Len(trophies[u].trophies) :
                    trophies[u].trophies[j] = trophies[u].active_trophies[i]
    /\ \A h \in InitDataHeaders, l \in TrophyLists :
         Len(l) > 8 =>
            LET out == update_active_trophies_endpoint(h, l)
            IN  /\ out.trophies = trophies
                /\ out.resp.status = IF ValidInitData(h) THEN 400 ELSE 401

\* Eight active keys have been stored by trophies.updateActive, and a
\* request with a key that is not held has been answered with 200.
C14_Witness ==
    /\ resp.op = "trophies.updateActive" /\ resp.status = 200
    /\ \E u \in UserIds : Len(trophies[u].active_trophies) = 8


-----------------------------------------------------------------------------
(* profile.get (app.py) with get_user (db.py) and format_profile_response  *)
(* (user_utils.py), and SpecProfile: profiles are saved and read.          *)

\* get_birthday: the birthday column, None without a row.
get_birthday(bd, user_id) == IF bd[user_id] = NoRow THEN NULL ELSE bd[user_id].birthday

\* The dictionary get_user builds from the row: the four list columns are
\* parsed.  The balance column is not modelled.
get_user_dict(u, bd, user_id) ==
    IF u[user_id] = NoRow THEN NoRow
    ELSE [user_id |-> user_id,
          real_name |-> u[user_id].real_name,
          psn_id |-> u[user_id].psn_id,
          platforms |-> parse_comma_separated_list(u[user_id].platforms),
          modes |-> parse_comma_separated_list(u[user_id].modes),
          goals |-> parse_comma_separated_list(u[user_id].goals),
          difficulties |-> parse_comma_separated_list(u[user_id].difficulties),
          avatar_url |-> u[user_id].avatar_url,
          birthday |-> get_birthday(bd, user_id)]

\* format_profile_response: 404 without a profile, else the fields of the
\* answer.
format_profile_response(profile, user_id) ==
    IF profile = NoRow THEN Response("profile.get", 404, "profile not found")
    ELSE ResponseWith("profile.get", 200, "ok",
            [user_id |-> user_id, real_name |-> profile.real_name,
             psn_id |-> profile.psn_id, platforms |-> profile.platforms,
             modes |-> profile.modes, goals |-> profile.goals,
             difficulties |-> profile.difficulties, birthday |-> profile.birthday,
             avatar_url |-> profile.avatar_url])

\* GET /api/profile.get over the tables u and bd.
get_profile(u, bd, x_telegram_init_data) ==
    LET auth == get_current_user(x_telegram_init_data)
    IN  IF ~auth.ok THEN [resp |-> Response("profile.get", 401, auth.detail)]
        ELSE [resp |-> format_profile_response(get_user_dict(u, bd, auth.user_id),
                                               auth.user_id)]

GetProfile(x_telegram_init_data) ==
    Read(get_profile(users, birthdays, x_telegram_init_data))

MaxProfileOps == 2      \* requests handled in SpecProfile

\* The lists of a profile form: none, two items in both orders, an item
\* with a comma, an item with a space before it, an empty item.
FormLists ==
    {<<>>, <<<<"ps5">>, <<"ps4">>>>, <<<<"ps4">>, <<"ps5">>>>,
     <<<<"a", ",", "b">>>>, <<<<" ", "ps5">>>>, <<<<>>, <<"ps5">>>>}

\* The forms of profile.save: names and PSN names with and without white
\* space around them, a blank name, a PSN name that is too short.
ProfileForms ==
    {<<n, p, l1, l2, l3, <<>>>> :
        n \in {<<" ", "N">>, <<" ">>},
        p \in {<<"a", "b", "_", "1">>, <<"a", "b", "c", "LF">>, <<"a", "b">>},
        l1 \in FormLists,
        l2 \in {<<>>, <<<<"story">>>>},
        l3 \in {<<>>, <<<<"a", ",", "b">>>>}}

NextProfile ==
    /\ nops < MaxProfileOps
    /\ \/ \E h \in SignedHeaders \cup {NoHeader}, r \in ProfileForms :
            SaveProfile(h, r[1], r[2], r[3], r[4], r[5], r[6])
       \/ \E h \in InitDataHeaders : GetProfile(h)

SpecProfile == InitAuth /\ [][NextProfile]_vars

\* C15: in every reachable state, for every user and every form, when
\* profile.save answers 200 the profile.get of the same user on the tables
\* it leaves answers 200 with the trimmed real_name and psn_id and with the
\* four lists exactly as they were submitted.
C15_SavedProfileReadsBack ==
    \A h \in SignedHeaders, r \in ProfileForms :
        LET out == save_profile(h, r[1], r[2], r[3], r[4], r[5], r[6])
            got == get_profile(out.users, out.birthdays, h).resp
        IN  out.resp.status = 200 =>
                /\ got.status = 200
                /\ got.body.real_name = Strip(r[1])
                /\ got.body.psn_id = Strip(r[2])
                /\ got.body.platforms = r[3]
                /\ got.body.modes = r[4]
                /\ got.body.goals = r[5]
                /\ got.body.difficulties = r[6]


-----------------------------------------------------------------------------
(* SpecComments: comments are written under builds, and users are deleted. *)

MaxCommentOps == 2      \* requests handled in SpecComments

NextComments ==
    /\ nops < MaxCommentOps
    /\ \/ \E h \in InitDataHeaders, b \in AnyBuildIds, c \in CommentTexts :
            CreateComment(h, b, c)
       \/ \E a \in MasteryHeaders, u \in AnyUserIds : DeleteUserData(u, a)

SpecComments == InitAuth /\ [][NextComments]_vars

\* C16: in every reachable state every stored comment has, after trimming,
\* between 1 and 500 characters; and comments.create with a text that is
\* empty after trimming or longer than 500 characters after trimming stores
\* nothing and answers 400 (401 without valid init data, 404 for a build
\* that does not exist, both tested before the text).
C16_StoredCommentsWithinLength ==
    /\ \A i \in 1..Len(comments) :
         /\ Len(Strip(comments[i].comment_text)) >= 1
         /\ Len(Strip(comments[i].comment_text)) <= 500
    /\ \A h \in InitDataHeaders, b \in AnyBuildIds, c \in CommentTexts :
         (Strip(c) = <<>> \/ Len(Strip(c)) > 500) =>
            LET out == create_comment_endpoint(h, b, c)
            IN  /\ out.comments = comments
                /\ out.resp.status = IF ~ValidInitData(h) THEN 401
                                     ELSE IF builds[b] = NoRow THEN 404
                                     ELSE 400

\* A comment of 500 characters has been stored by comments.create.
C16_Witness ==
    /\ resp.op = "comments.create" /\ resp.status = 200
    /\ \E i \in 1..Len(comments) : Len(comments[i].comment_text) = 500


-----------------------------------------------------------------------------
(* builds.togglePublish twice (checked in SpecPrivacy).                    *)

\* C17: in every reachable state the is_public of every build is 0 or 1;
\* and for every build, its owner u and every value v in {0, 1}, the
\* togglePublish of u with v answers 200, the same request made again on
\* the tables it leaves answers 200 too, and the second call leaves the
\* builds as the first one did, with is_public = v.
C17_TogglePublishIdempotent ==
    /\ \A b \in AnyBuildIds : builds[b] # NoRow => builds[b].is_public \in {0, 1}
    /\ \A b \in AnyBuildIds, u \in UserIds, v \in {0, 1} :
         (builds[b] # NoRow /\ builds[b].user_id = u) =>
            LET h == Header(InitDataOf(u, BOT_TOKEN))
                once == toggle_build_publish_on(builds, h, b, v)
                twice == toggle_build_publish_on(once.builds, h, b, v)
            IN  /\ once.resp.status = 200
                /\ twice.resp.status = 200
                /\ twice.builds = once.builds
                /\ once.builds = [builds EXCEPT ![b].is_public = v]

\* The owner has published the build that was private at the start, in a
\* second request in a row.
C17_Witness ==
    /\ resp.op = "builds.togglePublish" /\ resp.status = 200
    /\ nops = 2
    /\ builds[2] # NoRow /\ builds[2].is_public = 1


-----------------------------------------------------------------------------
(* SpecHero: quests are marked and weeks reset while users leave the group *)
(* (the bot deletes their data) and save their profile again.              *)

MaxHeroOps == 3         \* calls handled in SpecHero

NextHero ==
    /\ nops < MaxHeroOps
    /\ \/ \E u \in UserIds, t \in ReqQuestTypes : MarkQuestDone(u, SeedPsn, t)
       \/ ResetWeeklyQuests
       \/ \E a \in MasteryHeaders, u \in AnyUserIds : DeleteUserData(u, a)
       \/ \E h \in SignedHeaders :
            SaveProfile(h, <<"N">>, SeedPsn, <<>>, <<>>, <<>>, <<>>)

SpecHero == InitQuests /\ [][NextHero]_vars

\* C18: in every reachable state, (a) a mark_quest_done that brings the
\* user's all_completed to 5 leaves the user holding 'week-hero', and any
\* other mark_quest_done leaves the trophies as they are; (b) the weekly
\* reset puts the streak of every user with fewer than four quests done to
\* 0; (c) every user whose all_completed is 5 or more holds 'week-hero'.
C18_WeekHeroAtStreakFive ==
    /\ \A u \in UserIds, t \in ReqQuestTypes :
         LET out == mark_quest_done(u, SeedPsn, t)
             reaches == StreakOf(out.quests_done, u) = 5 /\ StreakOf(quests_done, u) = 4
         IN  IF reaches
             THEN /\ out.trophies[u] # NoRow
                  /\ \E i \in 1..Len(out.trophies[u].trophies) :
                        out.trophies[u].trophies[i] = "week-hero"
             ELSE out.trophies = trophies
    /\ \A u \in AnyUserIds :
         (quests_done[u] # NoRow
            /\ quests_done[u].hellmode + quests_done[u].story
                 + quests_done[u].survival + quests_done[u].trials < 4)
         => StreakOf(reset_weekly_quests(quests_done), u) = 0
    /\ \A u \in AnyUserIds :
         StreakOf(quests_done, u) >= 5 =>
            /\ trophies[u] # NoRow
            /\ \E i \in 1..Len(trophies[u].trophies) : trophies[u].trophies[i] = "week-hero"


-----------------------------------------------------------------------------
(* The rotation week (db.py), GET /api/rotation/current (app.py) and the   *)
(* script update_rotation_week.py.                                         *)

ROTATION_WEEKS == 16
ROTATION_FIRST_WEEK == 14

\* The row with id 1 of rotation_current_week.
RotationRow(week, last_updated) == [week |-> week, last_updated |-> last_updated]

\* get_current_rotation_week at time t: the week of the row; a missing row
\* is inserted with week 14.
get_current_rotation_week(r, t) ==
    IF r # NoRow THEN [week |-> r.week, rotation |-> r]
    ELSE [week |-> ROTATION_FIRST_WEEK,
          rotation |-> RotationRow(ROTATION_FIRST_WEEK, IntTimestamp(t))]

\* get_rotation_week_info at time t: week and last_updated; a missing row is
\* inserted with week 14.
get_rotation_week_info(r, t) ==
    LET row == IF r # NoRow THEN r ELSE RotationRow(ROTATION_FIRST_WEEK, IntTimestamp(t))
    IN  [week_info |-> row, rotation |-> row]

\* update_rotation_week with the remainder taken after the step.
update_rotation_week_remainder(r, t) ==
    IF r = NoRow
    THEN [ok |-> TRUE, rotation |-> RotationRow(ROTATION_FIRST_WEEK, IntTimestamp(t))]
    ELSE [ok |-> TRUE,
          rotation |-> RotationRow((r.week + 1) % ROTATION_WEEKS, IntTimestamp(t))]

\* update_rotation_week at time t: a missing row is inserted with week 14;
\* otherwise the week becomes (week % 16) + 1.
update_rotation_week(r, t) ==
    IF r = NoRow
    THEN [ok |-> TRUE, rotation |-> RotationRow(ROTATION_FIRST_WEEK, IntTimestamp(t))]
    ELSE [ok |-> TRUE,
          rotation |-> RotationRow((r.week % ROTATION_WEEKS) + 1, IntTimestamp(t))]

\* GET /api/rotation/current
get_current_rotation ==
    LET got == get_current_rotation_week(rotation_current_week, now)
    IN  [resp |-> ResponseWith("rotation.current", 200, "ok", [week |-> got.week]),
         rotation |-> got.rotation]

\* now_moscow.replace(hour=18, minute=0, second=0, microsecond=0)
replace_hour_18(local) == (local \div Hours(24)) * Hours(24) + Hours(18)

\* should_update_week at time t: Friday from 18:00 Moscow time, and the last
\* update before that Friday 18:00.  The row is read by
\* get_rotation_week_info, which inserts it when it is missing.
should_update_week(t, r) ==
    LET now_moscow == astimezone_moscow(t)
        info == get_rotation_week_info(r, t)
    IN  IF weekday(now_moscow) # 4 THEN [update |-> FALSE, rotation |-> r]
        ELSE IF hour(now_moscow) < 18 THEN [update |-> FALSE, rotation |-> r]
        ELSE [update |-> astimezone_moscow(info.week_info.last_updated)
                            < replace_hour_18(now_moscow),
              rotation |-> info.rotation]

\* main of update_rotation_week.py
update_rotation_week_main ==
    LET current == get_current_rotation_week(rotation_current_week, now)
        due == should_update_week(now, current.rotation)
        done == update_rotation_week(due.rotation, now)
    IN  IF due.update
        THEN [resp |-> Response("update_rotation_week.py", 200, "updated"),
              rotation |-> done.rotation]
        ELSE [resp |-> Response("update_rotation_week.py", 200, "not needed"),
              rotation |-> due.rotation]

\* What the rotation operations leave alone.
rotationFrame ==
    <<users, mastery, trophies, recent_events, birthdays, notifications, calls, questVars,
      farVars>>

GetCurrentRotation ==
    \E out \in {get_current_rotation} :
        /\ resp' = out.resp
        /\ rotation_current_week' = out.rotation
        /\ nops' = nops + 1
        /\ UNCHANGED rotationFrame

RotationScriptMain ==
    \E out \in {update_rotation_week_main} :
        /\ resp' = out.resp
        /\ rotation_current_week' = out.rotation
        /\ nops' = nops + 1
        /\ UNCHANGED rotationFrame

MaxRotationOps == 3     \* requests and script runs handled in SpecRotation

\* The instants of a week at which something happens, from its Saturday
\* 08:00 Moscow time: Fri 17:30, 18:00, 18:30 and Sat 00:00.
RotationOffsets == {Hours(153) + 1, Hours(154), Hours(154) + 1, Hours(160)}

RotationInstants ==
    {StartOfTime + Hours(168 * w) + o : w \in 0..(MaxWeeks - 1), o \in RotationOffsets}

\* Time passes.
RotationTick ==
    /\ \E t \in RotationInstants : t > now /\ now' = t
    /\ UNCHANGED <<users, mastery, trophies, recent_events, sideTables, quests_done,
                   quests_reset_log, week_ac, resp, nops, farVars>>

\* The table at the start: no row, or any week the updates lead to, last
\* updated on the Friday before.
RotationSeeds ==
    {NoRow} \cup {RotationRow(w, StartOfTime - Hours(14)) : w \in 1..ROTATION_WEEKS}

InitRotation ==
    /\ InitPeople
    /\ rotation_current_week \in RotationSeeds
    /\ trophies = [u \in AnyUserIds |-> NoRow]
    /\ mastery = [u \in AnyUserIds |-> NoRow]
    /\ InitNoQuests
    /\ InitFar

NextRotation ==
    \/ RotationTick
    \/ nops < MaxRotationOps /\ GetCurrentRotation
    \/ nops < MaxRotationOps /\ RotationScriptMain

SpecRotation == InitRotation /\ [][NextRotation]_vars

\* C19: in every reachable state the stored week is in 1..16 and so is the
\* week the endpoint returns; update_rotation_week turns week w into w + 1
\* for w < 16 and week 16 into week 1; and a missing row is created with
\* week 14 by update_rotation_week, get_current_rotation_week and
\* get_rotation_week_info.
C19_RotationWeekInRange ==
    /\ rotation_current_week # NoRow => rotation_current_week.week \in 1..16
    /\ get_current_rotation.resp.body.week \in 1..16
    /\ LET out == update_rotation_week(rotation_current_week, now)
       IN  /\ out.ok
           /\ IF rotation_current_week = NoRow THEN out.rotation.week = 14
              ELSE IF rotation_current_week.week < 16
              THEN out.rotation.week = rotation_current_week.week + 1
              ELSE out.rotation.week = 1
    /\ rotation_current_week = NoRow =>
          /\ get_current_rotation_week(rotation_current_week, now).week = 14
          /\ get_current_rotation_week(rotation_current_week, now).rotation.week = 14
          /\ get_rotation_week_info(rotation_current_week, now).rotation.week = 14

\* The script has moved week 16 to week 1 on a Friday evening.
C19_Witness ==
    /\ resp = Response("update_rotation_week.py", 200, "updated")
    /\ rotation_current_week # NoRow /\ rotation_current_week.week = 1


-----------------------------------------------------------------------------
(* Database errors (db.py): db_connection commits when its block ends and  *)
(* rolls back when the block raises sqlite3.Error; the operation then      *)
(* returns False.  An operation called inside the block opens a connection *)
(* of its own, which commits or rolls back by itself.                      *)

\* db_connection: the tables the connection leaves, from the tables before
\* its block, the tables its statements wrote, and whether a statement
\* raised sqlite3.Error.
db_connection(before, written, error) ==
    IF error THEN [raised |-> TRUE, tables |-> before]
    ELSE [raised |-> FALSE, tables |-> written]

\* Where the error of an operation happens: nowhere, at its first
\* statement, inside the operation it calls, at its last statement.
DbFaults == {"none", "first", "nested", "last"}

\* init_user_trophies with an error at its statements or without.
init_user_trophies_faulty(t, u, psn_id, error) ==
    LET conn == db_connection(t, init_user_trophies(t, u, psn_id), error)
    IN  [ok |-> ~conn.raised, trophies |-> conn.tables]

\* add_trophy with a fault: at its SELECT, inside init_user_trophies, or at
\* its UPDATE.  The row init_user_trophies has inserted is committed on the
\* connection of init_user_trophies before the UPDATE runs.
add_trophy_faulty(t, u, trophy_key, fault) ==
    LET psn_id == IF get_user(u) = NoRow THEN <<>> ELSE get_user(u).psn_id
        init == IF t[u] = NoRow
                THEN init_user_trophies_faulty(t, u, psn_id, fault = "nested")
                ELSE [ok |-> TRUE, trophies |-> t]
        current == IF t[u] = NoRow THEN <<>> ELSE t[u].trophies
        held == trophy_key \in SeqToSet(current)
        conn == db_connection(init.trophies,
                    [init.trophies EXCEPT ![u].trophies =
                        SortKeys(Append(current, trophy_key))],
                    fault = "last")
    IN  IF fault = "first" THEN [ok |-> FALSE, trophies |-> t]
        ELSE IF ~init.ok THEN [ok |-> FALSE, trophies |-> init.trophies]
        ELSE IF held THEN [ok |-> TRUE, trophies |-> init.trophies]
        ELSE [ok |-> ~conn.raised, trophies |-> conn.tables]

\* mark_quest_done with a fault: at its SELECT, inside add_trophy (at the
\* UPDATE of add_trophy), or at its INSERT OR REPLACE.  The result of
\* add_trophy is not looked at, and what add_trophy has committed is not
\* part of the transaction of mark_quest_done.
mark_quest_done_faulty(user_id, psn_id, quest_type, fault) ==
    LET done == mark_quest_done(user_id, psn_id, quest_type)
        grants == done.ok /\ StreakOf(done.quests_done, user_id) = WEEK_HERO_STREAK
                    /\ StreakOf(quests_done, user_id) = WEEK_HERO_STREAK - 1
        granted == IF grants
                   THEN add_trophy_faulty(trophies, user_id, "week-hero",
                                          IF fault = "nested" THEN "last" ELSE "none")
                   ELSE [ok |-> TRUE, trophies |-> trophies]
        conn == db_connection(quests_done, done.quests_done, fault = "last")
    IN  IF ~done.ok THEN done
        ELSE IF fault = "first"
        THEN [ok |-> FALSE, quests_done |-> quests_done, trophies |-> trophies]
        ELSE [ok |-> ~conn.raised, quests_done |-> conn.tables,
              trophies |-> granted.trophies]

\* upsert_user with an error at one of its statements or without: all its
\* statements run on one connection.
upsert_user_faulty(user_id, profile_data, error) ==
    LET before == [users |-> users, mastery |-> mastery, trophies |-> trophies,
                   birthdays |-> birthdays, notifications |-> notifications,
                   recent_events |-> recent_events, builds |-> builds]
        done == upsert_user(user_id, profile_data)
        conn == db_connection(before, done, error)
    IN  [ok |-> ~conn.raised] @@ [f \in DOMAIN before |-> conn.tables[f]]

MarkQuestDoneFaulty(user_id, psn_id, quest_type, fault) ==
    \E out \in {mark_quest_done_faulty(user_id, psn_id, quest_type, fault)} :
        /\ quests_done' = out.quests_done
        /\ trophies' = out.trophies
        /\ resp' = Response("mark_quest_done", IF out.ok THEN 200 ELSE 400,
                            IF out.ok THEN "ok" ELSE "failed")
        /\ nops' = nops + 1
        /\ UNCHANGED <<users, mastery, recent_events, sideTables, quests_reset_log, now,
                       week_ac, farVars>>

UpsertUserFaulty(user_id, profile_data, error) ==
    \E out \in {upsert_user_faulty(user_id, profile_data, error)} :
        /\ resp' = Response("upsert_user", IF out.ok THEN 200 ELSE 500,
                            IF out.ok THEN "ok" ELSE "failed")
        /\ users' = out.users
        /\ mastery' = out.mastery
        /\ trophies' = out.trophies
        /\ birthdays' = out.birthdays
        /\ notifications' = out.notifications
        /\ recent_events' = out.recent_events
        /\ builds' = out.builds
        /\ nops' = nops + 1
        /\ UNCHANGED <<rotation_current_week, calls, build_reactions, comments, files, questVars,
                       genVars>>

MaxFaultOps == 3        \* calls handled in SpecFaults

\* The profile data of the calls of upsert_user.
FaultProfiles ==
    {[real_name |-> <<"N">>, psn_id |-> p, platforms |-> <<<<"ps5">>>>, modes |-> <<>>,
      goals |-> <<>>, difficulties |-> <<>>] : p \in {SeedPsn, <<"n", "e", "w">>}}

NextFaults ==
    /\ nops < MaxFaultOps
    /\ \/ \E u \in UserIds, t \in ReqQuestTypes, f \in DbFaults :
            MarkQuestDoneFaulty(u, SeedPsn, t, f)
       \/ \E u \in AnyUserIds, d \in FaultProfiles, e \in BOOLEAN : UpsertUserFaulty(u, d, e)
       \/ ResetWeeklyQuests

SpecFaults == InitQuests /\ [][NextFaults]_vars

\* C20: in every reachable state, an upsert_user, a mark_quest_done or an
\* add_trophy in which a database error occurs (at its first statement,
\* inside the operation it calls, or at its last statement) returns False
\* and leaves every table as it was before the call.
C20_WritesAllOrNothing ==
    /\ \A u \in AnyUserIds, d \in FaultProfiles :
         LET out == upsert_user_faulty(u, d, TRUE)
         IN  /\ ~out.ok
             /\ out.users = users /\ out.mastery = mastery /\ out.trophies = trophies
             /\ out.birthdays = birthdays /\ out.notifications = notifications
             /\ out.recent_events = recent_events /\ out.builds = builds
    /\ \A u \in UserIds, t \in valid_quest_types, f \in DbFaults \ {"none"} :
         LET out == mark_quest_done_faulty(u, SeedPsn, t, f)
             calls_add_trophy == StreakOf(mark_quest_done(u, SeedPsn, t).quests_done, u) = 5
                                    /\ StreakOf(quests_done, u) = 4
         IN  (f = "nested" => calls_add_trophy) =>
                /\ ~out.ok
                /\ out.quests_done = quests_done
                /\ out.trophies = trophies
    /\ \A u \in UserIds, k \in {"week-hero"}, f \in DbFaults \ {"none"} :
         LET out == add_trophy_faulty(trophies, u, k, f)
             writes == f = "first" \/ (f = "nested" /\ trophies[u] = NoRow)
                         \/ (f = "last" /\ k \notin HeldTrophies(trophies, u))
         IN  writes => (~out.ok /\ out.trophies = trophies)

-----------------------------------------------------------------------------
(* SpecApprove: the bot approves mastery and trophy applications, also for *)
(* users whose data has been deleted.                                      *)

MaxApproveOps == 2      \* requests handled in SpecApprove

NextApprove ==
    /\ nops < MaxApproveOps
    /\ \/ \E a \in MasteryHeaders, u \in AnyUserIds, c \in ReqCategories, n \in AuthLevels :
            MasteryApprove(u, c, n, a)
       \/ \E a \in MasteryHeaders, u \in AnyUserIds, k \in ReqTrophyKeys :
            TrophyApprove(u, k, a)
       \/ \E a \in MasteryHeaders, u \in AnyUserIds : DeleteUserData(u, a)

SpecApprove == InitAuth /\ [][NextApprove]_vars

\* The statuses of a request that is reported as failed.
ErrorStatuses == {400, 401, 404, 500}

\* C21: in every reachable state, a mastery.approve or trophy.approve that
\* answers 400, 401, 404 or 500 leaves the mastery table and the trophies
\* table exactly as they were before the request.
C21_FailedApprovalWritesNothing ==
    /\ \A u \in AnyUserIds, c \in ReqCategories, n \in AuthLevels, a \in MasteryHeaders :
         LET out == approve_mastery_application(u, c, n, a)
         IN  out.resp.status \in ErrorStatuses =>
                (out.mastery = mastery /\ out.trophies = trophies)
    /\ \A u \in AnyUserIds, k \in ReqTrophyKeys, a \in MasteryHeaders :
         LET out == approve_trophy_application(u, k, a)
         IN  out.resp.status \in ErrorStatuses => out.trophies = trophies

-----------------------------------------------------------------------------
(* Mastery levels against the config (checked in SpecMastery).             *)

\* C22: in every reachable state, for every user with a mastery row and
\* every category of the config that has maxLevels and is a column of
\* mastery, the stored level is within 0..maxLevels.
C22_LevelWithinMaxLevels ==
    \A u \in AnyUserIds, i \in DOMAIN MasteryConfig.categories :
        LET cat == MasteryConfig.categories[i]
        IN  (mastery[u] # NoRow /\ "maxLevels" \in DOMAIN cat /\ cat.key \in CategorySet)
                => (mastery[u][cat.key] >= 0 /\ mastery[u][cat.key] <= cat.maxLevels)

-----------------------------------------------------------------------------
(* Overlapping calls of db.py.  Every call opens its own connection
   (db_connection), and sqlite3 opens a transaction only before the first
   INSERT, UPDATE or DELETE: the SELECT of a call runs outside any
   transaction, so another connection may commit between the SELECT of a call
   and its first write.  From the first write to the commit the database is
   locked, so the writes of one call and its commit are one step. *)

MaxQuestRaceOps == 3    \* calls started in SpecQuestRace

\* The SELECT of mark_quest_done: the row of the user, or the zeros of "no row".
mark_quest_done_select(q, user_id, psn_id) ==
    IF q[user_id] # NoRow THEN q[user_id] ELSE QuestRow(psn_id, 0, 0, 0, 0, 0, <<>>)

\* mark_quest_done from the row its SELECT returned: the trophy of the fifth
\* week and the INSERT OR REPLACE of the whole row, on the tables q and t as
\* they are when the call writes.
mark_quest_done_write(q, t, user_id, psn_id, quest_type, before) ==
    LET sum_before == CompletedCount(before)
        marked == [before EXCEPT ![quest_type] = 1]
        sum_after == CompletedCount(marked)
        completes == CompletesWeek(sum_before, sum_after)
        all_completed == IF completes THEN before.all_completed + 1
                         ELSE before.all_completed
        first_completed_at == IF completes /\ all_completed = 1 THEN <<IntTimestamp(now)>>
                              ELSE before.first_completed_at
        row == QuestRow(psn_id, marked.hellmode, marked.story, marked.survival,
                        marked.trials, all_completed, first_completed_at)
    IN  [ok |-> TRUE,
         quests_done |-> [q EXCEPT ![user_id] = row],
         trophies |-> IF completes /\ all_completed = WEEK_HERO_STREAK
                      THEN add_trophy(t, user_id, "week-hero")
                      ELSE t]

\* reset_weekly_quests from the rows its SELECT returned: the UPDATE or DELETE
\* of the loop is chosen by the row read and acts on the row stored now; a
\* user without a row at the SELECT is not visited.
reset_weekly_quests_write(q, rows) ==
    [u \in DOMAIN q |->
        IF rows[u] = NoRow \/ q[u] = NoRow THEN q[u]
        ELSE IF rows[u].all_completed > 0 /\ CompletedCount(rows[u]) = 4
        THEN [q[u] EXCEPT !.hellmode = 0, !.story = 0, !.survival = 0, !.trials = 0]
        ELSE NoRow]

questRaceFrame == <<users, mastery, recent_events, birthdays, notifications, rotation_current_week, quests_reset_log, now, farVars>>

\* A process enters mark_quest_done and runs its SELECT.
MarkQuestDoneSelect(p, user_id, psn_id, quest_type) ==
    /\ calls[p] = IdleCall
    /\ quest_type \in valid_quest_types
    /\ calls' = [calls EXCEPT ![p] =
                    [pc |-> "mark_quest_done", user_id |-> user_id, psn_id |-> psn_id,
                     quest_type |-> quest_type,
                     row |-> mark_quest_done_select(quests_done, user_id, psn_id),
                     reset_since |-> FALSE]]
    /\ nops' = nops + 1
    /\ UNCHANGED <<quests_done, trophies, week_ac, resp, questRaceFrame>>

\* The process writes the row and commits.
MarkQuestDoneWrite(p) ==
    /\ calls[p].pc = "mark_quest_done"
    /\ \E out \in {mark_quest_done_write(quests_done, trophies, calls[p].user_id,
                                         calls[p].psn_id, calls[p].quest_type, calls[p].row)} :
        /\ quests_done' = out.quests_done
        /\ trophies' = out.trophies
        /\ resp' = Response("mark_quest_done", 200, "ok")
    /\ calls' = [calls EXCEPT ![p] = IdleCall]
    /\ UNCHANGED <<nops, week_ac, questRaceFrame>>

\* A process enters reset_weekly_quests and runs its SELECT.
ResetWeeklyQuestsSelect(p) ==
    /\ calls[p] = IdleCall
    /\ calls' = [calls EXCEPT ![p] = [pc |-> "reset_weekly_quests", rows |-> quests_done]]
    /\ nops' = nops + 1
    /\ UNCHANGED <<quests_done, trophies, week_ac, resp, questRaceFrame>>

\* The process runs the loop of updates and deletes and commits; every
\* mark_quest_done that has read its row by now has read it before this reset.
ResetWeeklyQuestsWrite(p) ==
    /\ calls[p].pc = "reset_weekly_quests"
    /\ quests_done' = reset_weekly_quests_write(quests_done, calls[p].rows)
    /\ week_ac' = [u \in AnyUserIds |-> StreakOf(quests_done', u)]
    /\ resp' = Response("reset_weekly_quests", 200, "ok")
    /\ calls' = [c \in Procs |->
                    IF c = p THEN IdleCall
                    ELSE IF calls[c].pc = "mark_quest_done"
                    THEN [calls[c] EXCEPT !.reset_since = TRUE]
                    ELSE calls[c]]
    /\ UNCHANGED <<nops, trophies, questRaceFrame>>

NextQuestRace ==
    \/ /\ nops < MaxQuestRaceOps
       /\ \/ \E p \in Procs, u \in UserIds, t \in valid_quest_types : MarkQuestDoneSelect(p, u, SeedPsn, t)
          \/ \E p \in Procs : ResetWeeklyQuestsSelect(p)
    \/ \E p \in Procs : MarkQuestDoneWrite(p)
    \/ \E p \in Procs : ResetWeeklyQuestsWrite(p)

SpecQuestRace == InitQuests /\ [][NextQuestRace]_vars

\* The flag of a quest type in the stored row of a user, 0 without a row.
StoredFlag(q, u, f) == IF q[u] = NoRow THEN 0 ELSE q[u][f]

\* C23: a mark_quest_done that overlaps a reset_weekly_quests never restores
\* the state from before the reset: when the reset has committed after the
\* call read its row, the call writes, for every quest type but its own, the
\* flag stored now, and an all_completed that is the stored one or one more;
\* and two overlapping mark_quest_done calls of one user for different quest
\* types leave both flags set, whichever writes first.
C23_OverlappingMarkAndReset ==
    /\ \A p \in Procs :
        (calls[p].pc = "mark_quest_done" /\ calls[p].reset_since) =>
            LET u == calls[p].user_id
                out == mark_quest_done_write(quests_done, trophies, u, calls[p].psn_id,
                                             calls[p].quest_type, calls[p].row)
            IN  /\ \A f \in valid_quest_types \ {calls[p].quest_type} :
                        out.quests_done[u][f] = StoredFlag(quests_done, u, f)
                /\ out.quests_done[u].all_completed
                        \in {StreakOf(quests_done, u), StreakOf(quests_done, u) + 1}
    /\ \A p \in Procs, r \in Procs :
        (/\ p # r
         /\ calls[p].pc = "mark_quest_done" /\ calls[r].pc = "mark_quest_done"
         /\ calls[p].user_id = calls[r].user_id
         /\ calls[p].quest_type # calls[r].quest_type) =>
            LET u == calls[p].user_id
                first == mark_quest_done_write(quests_done, trophies, u, calls[p].psn_id,
                                               calls[p].quest_type, calls[p].row)
                second == mark_quest_done_write(first.quests_done, first.trophies, u,
                                                calls[r].psn_id, calls[r].quest_type, calls[r].row)
            IN  /\ second.quests_done[u][calls[p].quest_type] = 1
                /\ second.quests_done[u][calls[r].quest_type] = 1

-----------------------------------------------------------------------------
(* Requests that the API process handles at the same time.  app.py is served
   by one uvicorn process, and every endpoint is an async def whose calls of
   db.py are plain synchronous calls: a request enters after its dependencies
   and its form have been read, and from there to its next await its body runs
   on the event loop with no other request in between.  calls[r] is the
   request in slot r; a finished request stays in its slot, with the slots it
   overlapped, until the next request arrives there. *)

MaxReactionRaceOps == 2     \* requests that arrive in SpecReactionRace

\* The synchronous calls of db.py in which a request can be between two statements.
SyncCalls == {"toggle_reaction", "set_mastery"}

\* The event loop runs the body of request r only when no other request is
\* inside a synchronous call: a synchronous call is never suspended.
event_loop_runs_always(c, r) == TRUE

event_loop_runs(c, r) == \A o \in Procs \ {r} : c[o].pc \notin SyncCalls

\* The requests in flight next to a request that arrives in slot r.
InFlight(c, r) == {o \in Procs \ {r} : c[o].pc \notin {"idle", "done"}}

\* The slots when a request arrives in slot r: the request that was there is
\* forgotten by the others.
Arrive(c, r, call) ==
    [o \in Procs |->
        IF o = r THEN call
        ELSE IF c[o].pc = "idle" THEN c[o]
        ELSE [c[o] EXCEPT !.overlaps = @ \ {r}]]

DoneCall(call, status) ==
    [pc |-> "done", op |-> call.op, key |-> call.key, wrote |-> call.wrote,
     status |-> status, overlaps |-> call.overlaps]

\* The slots whose finished request overlapped the request that finishes in slot r.
Finish(c, r, status) ==
    [o \in Procs |->
        IF o = r THEN DoneCall(c[r], status)
        ELSE IF c[o].pc = "done" /\ o \in c[r].overlaps
        THEN [c[o] EXCEPT !.overlaps = @ \cup {r}]
        ELSE c[o]]

\* The SELECT of toggle_reaction: the types of the rows of the pair; fetchone
\* returns one of them, or None.
toggle_reaction_select(r, build_id, user_id) ==
    LET existing == {t \in {"like", "dislike"} : r[build_id][user_id][t] > 0}
    IN  IF existing = {} THEN {"None"} ELSE existing

\* toggle_reaction from the row its SELECT returned: DELETE of the rows of the
\* pair, UPDATE of their type, or INSERT of a row.  build_reactions is created
\* outside the source; an INSERT for a pair that has a row by now adds a second
\* row, or raises where the table has a unique index on the pair.
toggle_reaction_write(r, build_id, user_id, reaction_type, existing_type) ==
    LET rows == r[build_id][user_id]
        Result(after, final_reaction) ==
            [raised |-> FALSE,
             build_reactions |-> after,
             likes_count |-> get_reaction_stats(after, build_id)[1],
             dislikes_count |-> get_reaction_stats(after, build_id)[2],
             current_user_reaction |-> final_reaction]
    IN  IF existing_type = "None"
        THEN {Result([r EXCEPT ![build_id][user_id][reaction_type] = @ + 1], reaction_type)}
             \cup (IF rows.like + rows.dislike > 0
                   THEN {[raised |-> TRUE, build_reactions |-> r]} ELSE {})
        ELSE IF SameReaction(existing_type, reaction_type)
        THEN {Result([r EXCEPT ![build_id][user_id] = [like |-> 0, dislike |-> 0]], "None")}
        ELSE {Result([r EXCEPT ![build_id][user_id] =
                        IF reaction_type = "like"
                        THEN [like |-> rows.like + rows.dislike, dislike |-> 0]
                        ELSE [like |-> 0, dislike |-> rows.like + rows.dislike]],
                     reaction_type)}

reactionRaceFrame == <<users, mastery, trophies, recent_events, birthdays, notifications, rotation_current_week, questVars, genVars, builds, comments, files>>

\* POST /api/builds.toggleReaction arrives: get_current_user, the dependency of
\* the endpoint, answers 401 or lets the request in.
ToggleReactionArrive(r, x_telegram_init_data, build_id, reaction_type) ==
    LET auth == get_current_user(x_telegram_init_data)
        call == [pc |-> "toggle_reaction_endpoint", op |-> "builds.toggleReaction",
                 key |-> <<build_id, IF auth.ok THEN auth.user_id ELSE 0>>,
                 reaction_type |-> reaction_type, wrote |-> reaction_type,
                 overlaps |-> InFlight(calls, r)]
    IN  /\ calls[r].pc \in {"idle", "done"}
        /\ nops' = nops + 1
        /\ IF auth.ok
           THEN calls' = Arrive(calls, r, call) /\ UNCHANGED resp
           ELSE /\ calls' = Arrive(calls, r, DoneCall(call, 401))
                /\ resp' = Response("builds.toggleReaction", 401, auth.detail)
        /\ UNCHANGED <<build_reactions, reactionRaceFrame>>

\* The body of the endpoint up to the SELECT of toggle_reaction.
ToggleReactionSelect(r) ==
    LET build_id == calls[r].key[1]
        build == get_build(builds, build_id)
        Rejected(status, detail) ==
            /\ calls' = Finish(calls, r, status)
            /\ resp' = Response("builds.toggleReaction", status, detail)
    IN  /\ calls[r].pc = "toggle_reaction_endpoint"
        /\ event_loop_runs(calls, r)
        /\ IF build = NoRow THEN Rejected(404, "build not found")
           ELSE IF build.is_public = 0 THEN Rejected(403, "build not public")
           ELSE IF calls[r].reaction_type \notin {"like", "dislike"}
           THEN Rejected(400, "reaction type")
           ELSE /\ \E existing \in toggle_reaction_select(build_reactions, build_id, calls[r].key[2]) :
                    calls' = [calls EXCEPT ![r] =
                                [calls[r] EXCEPT !.pc = "toggle_reaction"]
                                    @@ [existing |-> existing]]
                /\ UNCHANGED resp
        /\ UNCHANGED <<nops, build_reactions, reactionRaceFrame>>

\* toggle_reaction writes, commits and reads the sums; the endpoint answers.
ToggleReactionWrite(r) ==
    /\ calls[r].pc = "toggle_reaction"
    /\ \E result \in toggle_reaction_write(build_reactions, calls[r].key[1], calls[r].key[2],
                                           calls[r].reaction_type, calls[r].existing) :
        IF result.raised
        THEN /\ resp' = Response("builds.toggleReaction", 500, "error")
             /\ calls' = Finish(calls, r, 500)
             /\ UNCHANGED build_reactions
        ELSE /\ resp' = ResponseWith("builds.toggleReaction", 200, "ok",
                            [likes_count |-> result.likes_count,
                             dislikes_count |-> result.dislikes_count,
                             current_user_reaction |-> result.current_user_reaction])
             /\ calls' = Finish(calls, r, 200)
             /\ build_reactions' = result.build_reactions
    /\ UNCHANGED <<nops, reactionRaceFrame>>

RaceHeaders == {Header(InitDataOf(u, BOT_TOKEN)) : u \in {1, 2}} \cup {Header(<<>>)}

\* The public build 1, the private build 2 and a build that does not exist.
RaceBuilds == {b \in AnyBuildIds : b \in {1, 2} \/ SeedBuild(b) = NoRow}

\* The slot a request arrives in: the first one with no request in flight.
FreeSlot(c, r) ==
    /\ c[r].pc \in {"idle", "done"}
    /\ \A o \in Procs : c[o].pc \in {"idle", "done"} => r <= o

NextReactionRace ==
    \/ /\ nops < MaxReactionRaceOps
       /\ \E r \in Procs, h \in RaceHeaders, b \in RaceBuilds, t \in ReqReactionTypes :
            FreeSlot(calls, r) /\ ToggleReactionArrive(r, h, b, t)
    \/ \E r \in Procs : ToggleReactionSelect(r)
    \/ \E r \in Procs : ToggleReactionWrite(r)

SpecReactionRace == InitAuth /\ [][NextReactionRace]_vars

\* C24: at all times every (build, user) pair has at most one reaction row,
\* also while and after two toggleReaction requests of one user for one build
\* are handled at the same time, and a build's likes_count and dislikes_count
\* count every user at most once.
C24_OneReactionRowPerPair ==
    /\ \A b \in AnyBuildIds, u \in AnyUserIds :
            build_reactions[b][u].like + build_reactions[b][u].dislike <= 1
    /\ \A b \in AnyBuildIds :
         /\ get_reaction_stats(build_reactions, b)[1]
                = Cardinality({u \in AnyUserIds : build_reactions[b][u].like > 0})
         /\ get_reaction_stats(build_reactions, b)[2]
                = Cardinality({u \in AnyUserIds : build_reactions[b][u].dislike > 0})

\* Two toggleReaction requests of one user for one build were in flight at the
\* same time and both were answered 200.
C24_Witness ==
    \E r \in Procs, o \in Procs :
        /\ r # o
        /\ calls[r].pc = "done" /\ calls[o].pc = "done"
        /\ o \in calls[r].overlaps
        /\ calls[r].op = "builds.toggleReaction" /\ calls[o].op = "builds.toggleReaction"
        /\ calls[r].key = calls[o].key
        /\ calls[r].status = 200 /\ calls[o].status = 200
        /\ ReactionOf(build_reactions, calls[r].key[1], calls[r].key[2]) = "like"

-----------------------------------------------------------------------------
(* mastery.approve requests handled at the same time: set_mastery reads the
   five levels of the user and writes all five back. *)

MaxMasteryRaceOps == 2      \* requests that arrive in SpecMasteryRace

\* The SELECTs of set_mastery: the row of the user, NoRow when the first
\* SELECT finds none.
set_mastery_select(m, user_id) == m[user_id]

\* set_mastery_write with the four other columns written as 0.
set_mastery_write_zeroes(m, user_id, category, level, current_row) ==
    IF m[user_id] = NoRow
    THEN [ok |-> current_row # NoRow, mastery |-> m]
    ELSE [ok |-> TRUE,
          mastery |-> [m EXCEPT ![user_id] =
              [c \in CategorySet |-> IF c = category THEN level ELSE 0]
                  @@ [psn_id |-> m[user_id].psn_id]]]

\* set_mastery from the row its SELECTs returned: the UPDATE of the five
\* columns, the four others with the values read, or the INSERT of a new row
\* (user_id is the key of the table: the INSERT fails when the user has a row
\* by now).
set_mastery_write(m, user_id, category, level, current_row) ==
    IF current_row # NoRow
    THEN IF m[user_id] = NoRow THEN [ok |-> TRUE, mastery |-> m]
         ELSE [ok |-> TRUE,
               mastery |-> [m EXCEPT ![user_id] =
                   [c \in CategorySet |-> IF c = category THEN level ELSE current_row[c]]
                       @@ [psn_id |-> m[user_id].psn_id]]]
    ELSE IF m[user_id] # NoRow THEN [ok |-> FALSE, mastery |-> m]
    ELSE [ok |-> TRUE,
          mastery |-> [m EXCEPT ![user_id] =
              [c \in CategorySet |-> IF c = category THEN level ELSE 0]
                  @@ [psn_id |-> IF users[user_id] # NoRow /\ users[user_id].psn_id # <<>>
                                 THEN users[user_id].psn_id ELSE NULL]]]

masteryRaceFrame == <<users, birthdays, notifications, rotation_current_week, questVars, farVars>>

\* POST /api/mastery.approve arrives: its form and header have been read.
MasteryApproveArrive(r, user_id, category_key, next_level, authorization) ==
    /\ calls[r].pc \in {"idle", "done"}
    /\ calls' = Arrive(calls, r,
                    [pc |-> "approve_mastery_application", op |-> "mastery.approve",
                     key |-> <<user_id, category_key>>, next_level |-> next_level,
                     authorization |-> authorization, wrote |-> 0,
                     overlaps |-> InFlight(calls, r)])
    /\ nops' = nops + 1
    /\ UNCHANGED <<resp, mastery, trophies, recent_events, masteryRaceFrame>>

\* The body of the endpoint up to the SELECTs of set_mastery.
MasteryApproveSelect(r) ==
    LET user_id == calls[r].key[1]
        category_key == calls[r].key[2]
        current_level == LevelOf(mastery, user_id, category_key)
        Rejected(status, detail) ==
            /\ calls' = Finish(calls, r, status)
            /\ resp' = Response("mastery.approve", status, detail)
    IN  /\ calls[r].pc = "approve_mastery_application"
        /\ event_loop_runs(calls, r)
        /\ IF ~verify_bot_authorization(calls[r].authorization)
           THEN Rejected(401, "unauthorized")
           ELSE IF LevelMismatch(current_level, calls[r].next_level)
           THEN Rejected(400, "level mismatch")
           ELSE IF find_category_by_key(MasteryConfig, category_key) = NoRow
           THEN Rejected(400, "category not in config")
           ELSE IF category_key \notin CategorySet
           THEN Rejected(500, "set_mastery failed")
           ELSE /\ calls' = [calls EXCEPT ![r] =
                                [calls[r] EXCEPT !.pc = "set_mastery",
                                                 !.wrote = current_level + 1]
                                    @@ [current_row |-> set_mastery_select(mastery, user_id)]]
                /\ UNCHANGED resp
        /\ UNCHANGED <<nops, mastery, trophies, recent_events, masteryRaceFrame>>

\* set_mastery writes and commits; the endpoint grants the trophy of the last
\* level, reads the profile, notifies the user and logs the event.
MasteryApproveWrite(r) ==
    LET user_id == calls[r].key[1]
        category_key == calls[r].key[2]
        new_level == calls[r].wrote
        saved == set_mastery_write(mastery, user_id, category_key, new_level,
                                   calls[r].current_row)
        max_levels == MaxLevelsOf(find_category_by_key(MasteryConfig, category_key))
    IN  /\ calls[r].pc = "set_mastery"
        /\ IF ~saved.ok
           THEN /\ resp' = Response("mastery.approve", 500, "set_mastery failed")
                /\ calls' = Finish(calls, r, 500)
                /\ UNCHANGED <<mastery, trophies, recent_events>>
           ELSE /\ mastery' = saved.mastery
                /\ trophies' = IF ReachedMaxLevel(new_level, max_levels)
                               THEN add_trophy(trophies, user_id, category_key)
                               ELSE trophies
                /\ IF get_user(user_id) = NoRow
                   THEN /\ resp' = Response("mastery.approve", 404, "profile not found")
                        /\ calls' = Finish(calls, r, 404)
                        /\ UNCHANGED recent_events
                   ELSE /\ resp' = Response("mastery.approve", 200, "ok")
                        /\ calls' = Finish(calls, r, 200)
                        /\ recent_events' = Append(recent_events,
                              [event_type |-> "mastery_upgrade", user_id |-> user_id,
                               psn_id |-> get_user(user_id).psn_id,
                               category_key |-> category_key, level |-> new_level])
        /\ UNCHANGED <<nops, masteryRaceFrame>>

RaceCategories == {"solo", "raid", "bonus"}

NextMasteryRace ==
    \/ /\ nops < MaxMasteryRaceOps
       /\ \E r \in Procs, u \in {2, GhostUser}, c \in RaceCategories, n \in {1, 2},
             a \in {NoHeader, Header(<<"Bearer ", "tok">>)} :
            FreeSlot(calls, r) /\ MasteryApproveArrive(r, u, c, n, a)
    \/ \E r \in Procs : MasteryApproveSelect(r)
    \/ \E r \in Procs : MasteryApproveWrite(r)

SpecMasteryRace == InitAuth /\ [][NextMasteryRace]_vars

\* Two answered requests of mastery.approve that were in flight at the same
\* time, for one user and two categories, with no other request for them.
OverlappingApprovals(r, o) ==
    /\ r # o
    /\ calls[r].pc = "done" /\ calls[o].pc = "done"
    /\ calls[r].op = "mastery.approve" /\ calls[o].op = "mastery.approve"
    /\ calls[r].status \in {200, 404} /\ calls[o].status \in {200, 404}
    /\ o \in calls[r].overlaps
    /\ calls[r].key[1] = calls[o].key[1]
    /\ calls[r].key[2] # calls[o].key[2]
    /\ \A x \in Procs \ {r, o} :
            calls[x].pc = "idle" \/ calls[x].op # "mastery.approve"
                \/ calls[x].key[1] # calls[r].key[1]

-----------------------------------------------------------------------------
(* SpecOrphans: builds are created and deleted while comments and reactions
   are written. *)

MaxOrphanOps == 2       \* requests handled in SpecOrphans

NextOrphans ==
    /\ nops < MaxOrphanOps
    /\ \/ \E h \in SignedHeaders, b \in AnyBuildIds, c \in {<<"h", "i", " ">>} :
            CreateComment(h, b, c)
       \/ \E h \in SignedHeaders, b \in AnyBuildIds, t \in {"like", "dislike"} :
            ToggleReaction(h, b, t)
       \/ \E h \in SignedHeaders, b \in AnyBuildIds : DeleteBuild(h, b)
       \/ \E h \in SignedHeaders, r \in CreateRequests :
            CreateBuild(h, r[1], r[2], r[3], r[4], r[5], r[6])

SpecOrphans == InitAuth /\ [][NextOrphans]_vars

\* The reaction rows of a table that are attached to build b.
ReactionRowsOf(r, b) ==
    SumOver([u \in AnyUserIds |-> r[b][u].like + r[b][u].dislike], AnyUserIds)

\* C26: every stored comment and every stored reaction refers to a build that
\* exists: a build without a row, deleted by builds.delete or by a failed
\* builds.create, has no comment and no reaction left; and the build of an
\* answered builds.create has no comment and no reaction.
C26_CommentsAndReactionsHaveABuild ==
    /\ \A b \in AnyBuildIds :
            builds[b] = NoRow =>
                /\ CommentsOf(comments, b) = <<>>
                /\ ReactionRowsOf(build_reactions, b) = 0
    /\ \A h \in SignedHeaders, r \in CreateRequests :
         \A out \in create_build_endpoint(h, r[1], r[2], r[3], r[4], r[5], r[6]) :
            out.resp.status = 200 =>
                /\ CommentsOf(comments, out.resp.body.build_id) = <<>>
                /\ ReactionRowsOf(build_reactions, out.resp.body.build_id) = 0

-----------------------------------------------------------------------------
(* SpecFrame: profiles are written by upsert_user with a birthday, as a caller
   of db.py other than profile.save can, and by profile.save. *)

MaxFrameOps == 2        \* operations in SpecFrame

\* upsert_user is called with a profile_data that holds a birthday.
UpsertUser(user_id, profile_data) ==
    \E out \in {upsert_user(user_id, profile_data)} :
        /\ users' = out.users
        /\ mastery' = out.mastery
        /\ trophies' = out.trophies
        /\ birthdays' = out.birthdays
        /\ notifications' = out.notifications
        /\ recent_events' = out.recent_events
        /\ builds' = out.builds
        /\ resp' = Response("upsert_user", IF out.ok THEN 200 ELSE 500,
                            IF out.ok THEN "ok" ELSE "error")
        /\ nops' = nops + 1
        /\ UNCHANGED <<rotation_current_week, calls, build_reactions, comments, files, questVars,
                       genVars>>

\* The profiles of the direct calls: with a birthday and with a blank one.
BirthdayProfiles ==
    {[real_name |-> <<"N">>, psn_id |-> <<"a", "b", "c">>, platforms |-> <<<<"ps5">>>>,
      modes |-> <<>>, goals |-> <<>>, difficulties |-> <<>>, birthday |-> b] :
        b \in {<<"0", "1", ".", "0", "2">>, <<" ">>}}

NextFrame ==
    /\ nops < MaxFrameOps
    /\ \/ \E u \in AnyUserIds, d \in BirthdayProfiles : UpsertUser(u, d)
       \/ \E h \in SignedHeaders, r \in ProfileForms :
            SaveProfile(h, r[1], r[2], r[3], r[4], r[5], r[6])

SpecFrame == InitAuth /\ [][NextFrame]_vars

\* The columns of a row other than psn_id.
ButPsn(row) == [f \in (DOMAIN row) \ {"psn_id"} |-> row[f]]

\* C27: profile.save for a user who has a profile changes, in the rows of
\* the user, only real_name, psn_id and the four lists of users and the
\* psn_id of the other tables: avatar_url, the birthday, the mastery levels,
\* the trophies, the active trophies and the notification settings are as
\* before, and so is every row of every other user.
C27_ProfileSaveFrame ==
    \A h \in SignedHeaders, r \in ProfileForms :
        LET out == save_profile(h, r[1], r[2], r[3], r[4], r[5], r[6])
            u == get_current_user(h).user_id
        IN  (out.resp.status = 200 /\ users[u] # NoRow) =>
                /\ out.users[u].avatar_url = users[u].avatar_url
                /\ birthdays[u] # NoRow => ButPsn(out.birthdays[u]) = ButPsn(birthdays[u])
                /\ mastery[u] # NoRow => ButPsn(out.mastery[u]) = ButPsn(mastery[u])
                /\ trophies[u] # NoRow => ButPsn(out.trophies[u]) = ButPsn(trophies[u])
                /\ notifications[u] # NoRow
                        => ButPsn(out.notifications[u]) = ButPsn(notifications[u])
                /\ \A v \in AnyUserIds \ {u} :
                        /\ out.users[v] = users[v]
                        /\ out.birthdays[v] = birthdays[v]
                        /\ out.mastery[v] = mastery[v]
                        /\ out.trophies[v] = trophies[v]
                        /\ out.notifications[v] = notifications[v]

-----------------------------------------------------------------------------
(* comments.recent (app.py) with get_recent_comments (db.py): the newest
   comments with the name and the class of their builds. *)

MaxFeedOps == 2         \* requests handled in SpecFeed

\* row[n] or default
OrDefault(value, default) == IF value \in {NULL, <<>>} THEN default ELSE value

\* The rows of a table of comments, the newest first (ORDER BY created_at
\* DESC: a comment inserted later is not older).
RECURSIVE NewestCommentsFirst(_)
NewestCommentsFirst(c) ==
    IF c = <<>> THEN <<>> ELSE NewestCommentsFirst(Tail(c)) \o <<Head(c)>>

\* get_recent_comments: the newest limit comments, each joined to its author
\* and to its build by LEFT JOIN, whatever the is_public of the build.
get_recent_comments(c, u, b, limit) ==
    LET rows == FirstN(NewestCommentsFirst(c), limit)
    IN  [k \in 1..Len(rows) |->
            [build_id |-> rows[k].build_id,
             user_id |-> rows[k].user_id,
             comment_text |-> rows[k].comment_text,
             psn_id |-> IF u[rows[k].user_id] = NoRow THEN <<"hidden author">>
                        ELSE OrDefault(u[rows[k].user_id].psn_id, <<"hidden author">>),
             avatar_url |-> IF u[rows[k].user_id] = NoRow THEN NULL
                            ELSE u[rows[k].user_id].avatar_url,
             build_name |-> IF b[rows[k].build_id] = NoRow THEN <<"no name">>
                            ELSE OrDefault(b[rows[k].build_id].name, <<"no name">>),
             build_class |-> IF b[rows[k].build_id] = NoRow THEN <<>>
                             ELSE OrDefault(b[rows[k].build_id].class, <<>>)]]

\* GET /api/comments.recent: limit is a Query(3, ge=1, le=10).
get_recent_comments_feed(x_telegram_init_data, limit) ==
    LET auth == get_current_user(x_telegram_init_data)
    IN  IF limit < 1 \/ limit > 10
        THEN [resp |-> Response("comments.recent", 422, "limit")]
        ELSE IF ~auth.ok THEN [resp |-> Response("comments.recent", 401, auth.detail)]
        ELSE [resp |-> ResponseWith("comments.recent", 200, "ok",
                                    get_recent_comments(comments, users, builds, limit))]

GetRecentComments(x_telegram_init_data, limit) ==
    Read(get_recent_comments_feed(x_telegram_init_data, limit))

FeedLimits == {0, 1, 3}

NextFeed ==
    /\ nops < MaxFeedOps
    /\ \/ \E h \in SignedHeaders, b \in AnyBuildIds, c \in {<<"h", "i", " ">>} :
            CreateComment(h, b, c)
       \/ \E h \in SignedHeaders, b \in AnyBuildIds, v \in {0, 1} : TogglePublish(h, b, v)
       \/ \E h \in SignedHeaders \cup {NoHeader}, l \in FeedLimits : GetRecentComments(h, l)

SpecFeed == InitBuilds /\ [][NextFeed]_vars

\* A build with is_public = 0 that user u does not own.
PrivateToOthers(b, u) == builds[b] # NoRow /\ builds[b].is_public = 0 /\ builds[b].user_id # u

\* C28: no endpoint returns the name or the class of a build with
\* is_public = 0 to a user other than its owner: no entry of the feed of
\* comments.recent, for any caller and limit, carries the name and class of
\* such a build, and builds.get, builds.getPublic, builds.search and
\* builds.getUserBuilds do not return the build.
C28_PrivateBuildNameNeverReturned ==
    /\ \A h \in SignedHeaders, l \in FeedLimits :
         LET out == get_recent_comments_feed(h, l).resp
             u == get_current_user(h).user_id
         IN  out.status = 200 =>
                \A k \in DOMAIN out.body :
                    PrivateToOthers(out.body[k].build_id, u) =>
                        /\ out.body[k].build_name # builds[out.body[k].build_id].name
                        /\ out.body[k].build_class # builds[out.body[k].build_id].class
    /\ \A h \in SignedHeaders, b \in AnyBuildIds :
         PrivateToOthers(b, get_current_user(h).user_id) =>
            /\ get_build_by_id_endpoint(b).resp.status # 200
            /\ b \notin ListedIds(get_public_builds_endpoint.resp.body)
            /\ b \notin ListedIds(search_builds_endpoint(<<>>, 10).resp.body)
            /\ \A t \in UserIds :
                    b \notin ListedIds(get_user_builds_endpoint(h, t).resp.body)

-----------------------------------------------------------------------------
(* SpecCreate: builds are created with photos that can and cannot be read,
   published and deleted. *)

MaxCreateOps == 3       \* requests handled in SpecCreate

\* The requests of builds.create: every pair of photos, and a blank name.
PhotoRequests ==
    {<<n, <<"ronin">>, <<"a", ",", "b">>, <<"text">>, p1, p2>> :
        n \in {<<"new">>, <<" ">>}, p1 \in {"image", "corrupt"}, p2 \in {"image", "corrupt"}}

NextCreate ==
    /\ nops < MaxCreateOps
    /\ \/ \E h \in SignedHeaders \cup {NoHeader}, r \in PhotoRequests :
            CreateBuild(h, r[1], r[2], r[3], r[4], r[5], r[6])
       \/ \E h \in SignedHeaders, b \in AnyBuildIds, v \in {0, 1} : TogglePublish(h, b, v)
       \/ \E h \in SignedHeaders, b \in AnyBuildIds : DeleteBuild(h, b)

SpecCreate == InitBuilds /\ [][NextCreate]_vars

\* The files below the directory of build b.
BuildFiles(f, b) == {p \in Paths : p[1] = "builds" /\ p[2] = b /\ f[p] # "absent"}

\* C29: in every reachable state and for every request, an answered
\* builds.create has stored one new build, with is_public = 0, and changed no
\* other build; a builds.create with a photo that cannot be processed answers
\* 500 and leaves the builds as they were and no file in the directory of the
\* build it had inserted; every other rejected builds.create changes nothing.
C29_CreatedPrivateOrNothing ==
    \A h \in SignedHeaders \cup {NoHeader}, r \in PhotoRequests :
        \A out \in create_build_endpoint(h, r[1], r[2], r[3], r[4], r[5], r[6]) :
            /\ out.resp.status = 200 =>
                LET id == out.resp.body.build_id
                IN  /\ builds[id] = NoRow /\ out.builds[id] # NoRow
                    /\ out.builds[id].is_public = 0
                    /\ out.builds[id].user_id = get_current_user(h).user_id
                    /\ \A b \in AnyBuildIds \ {id} : out.builds[b] = builds[b]
            /\ out.resp.status # 200 =>
                /\ out.builds = builds
                /\ \A b \in AnyBuildIds : builds[b] = NoRow => BuildFiles(out.files, b) = {}
                /\ \A b \in AnyBuildIds :
                        builds[b] # NoRow => BuildFiles(out.files, b) = BuildFiles(files, b)
            /\ (get_current_user(h).ok /\ Strip(r[1]) # <<>> /\ <<r[5], r[6]>> # <<"image", "image">>
                    /\ get_user_with_psn(get_current_user(h).user_id).ok)
                => out.resp.status = 500

\* A builds.create whose first photo could not be processed has been
\* answered 500 after a build was published: the builds are those of the
\* start but for the published one, and no file is left for a build without row.
C29_Witness ==
    /\ resp = Response("builds.create", 500, "photos")
    /\ builds[2] # NoRow /\ builds[2].is_public = 1
    /\ \A b \in AnyBuildIds : builds[b] = NoRow => BuildFiles(files, b) = {}
    /\ \E b \in AnyBuildIds : builds[b] = NoRow

=============================================================================
